---- MODULE Spec2Model ----
(***************************************************************************)
(* A model of the analysis pipeline of lfglance/chess:                     *)
(*   - StreamingOllamaAnalyzer.analyze_game_streaming, the parser of the   *)
(*     newline-delimited JSON stream of the inference service              *)
(*     (SpecStream);                                                       *)
(*   - OllamaAnalyzer.save_analysis_to_cache / load_analysis_from_cache,   *)
(*     the disk-backed cache (SpecCache);                                  *)
(*   - OllamaAnalyzer.get_cache_filename (SpecKey);                        *)
(*   - extract_game_info and analyze_games_from_file, from the raw JSON    *)
(*     of the game source to GameInfo (SpecExtract);                       *)
(*   - OllamaAnalyzer.format_game_for_analysis, from a GameInfo to the     *)
(*     prompt (SpecFormat);                                                *)
(*   - list_cached_analyses, the enumeration of the cache (SpecList);      *)
(*   - LichessGamesFetcher.fetch_games and fetch_all_games, the paging of  *)
(*     the remote history of games (SpecFetch);                            *)
(*   - OllamaAnalyzer.analyze_game_with_cache, the analysis without        *)
(*     streaming (SpecPlain);                                              *)
(*   - analyze_all_games, the batch orchestrator (Spec, SpecTwice, and     *)
(*     FairSpec for its termination).                                      *)
(* Texts are sequences of characters; an Optional[str] is a record         *)
(* [some, text]; Python's None in a field of a game is the value None.     *)
(***************************************************************************)
EXTENDS Integers, Sequences, FiniteSets, TLC

VARIABLES
    \* analyze_game_streaming (one call)
    stream,         \* the lines response.iter_lines() yields if nothing fails
    sgame,          \* the game the call is about
    spc,            \* position of the call: start, post, reading, returned, raised
    pos,            \* number of lines consumed so far
    full_analysis,  \* the accumulating buffer
    result,         \* the value returned
    stop,           \* why the call ended
    \* the cache directory
    disk,           \* cache file name -> content of the file
    now,            \* the clock datetime.now() reads
    written,        \* history: file name -> the cache_data last dumped into it in full
    loaded,         \* the last load_analysis_from_cache call and what it returned
    \* analyze_all_games: the input file and the command line
    file,           \* the GameInfo list analyze_games_from_file returns
    force_refresh,
    start_from,     \* <<>> when not given
    max_games,      \* an Optional[int]: NoneInt when not given
    delay_between_games,
    \* analyze_all_games: the run
    bpc,            \* start, loop, sleep, final, done, failed
    games,          \* the list after the resume slice and the cap
    i,              \* the loop counter of enumerate(games, 1)
    stats,
    ret,            \* what analyze_all_games returned
    exit_code,      \* the status main() exits with, -1 while running
    run,            \* the number of the invocation
    log,            \* history: one entry per loop iteration
    sleeps,         \* history: the number of time.sleep calls of this run
    \* get_cache_filename (one call)
    key_args,       \* the game_id, model and username it is called with
    key_file,       \* the path it returned, <<>> before the call
    \* extract_game_info and analyze_games_from_file (one call each)
    extracted,      \* the raw game extract_game_info was given and what came of it
    from_file,      \* the content of the games file and the list loaded from it
    \* format_game_for_analysis (one call)
    prompt,         \* the game and the player it was given, and what it put in the prompt
    \* list_cached_analyses (one call)
    listing,        \* the directory it was given and the list it returned
    \* fetch_all_games (one call)
    remote,         \* the history of the user at the service, and how it pages
    fetch           \* the locals of the call, and history: the requests it made

streamVars == <<stream, sgame, spc, pos, full_analysis, result, stop>>

cacheVars == <<disk, now, written>>

paramVars == <<file, force_refresh, start_from, max_games, delay_between_games>>

runVars == <<bpc, games, i, stats, ret, exit_code, run, log, sleeps>>

fnVars == <<key_args, key_file, extracted, from_file, prompt, listing, remote,
           fetch>>

vars == <<streamVars, cacheVars, loaded, paramVars, runVars, fnVars>>

-----------------------------------------------------------------------------
(* Bounds of the model *)

\* longest response body, in lines
MaxLines == 3

\* longest moves string of a raw game, in characters
MaxMovesLen == 3

\* longest move list of a game given to the formatter
MaxMoves == 3

\* most files of the cache directory given to list_cached_analyses
MaxFiles == 3

\* longest games file, in raw games
MaxRaw == 3

\* number of save_analysis_to_cache calls followed in SpecCache
MaxClock == 2

\* longest input file, in games
MaxBatch == 3

\* longest input file followed over several invocations (SpecTwice) and to
\* the end of the run under fairness (FairSpec)
MaxTwice == 2

\* longest game_id, model and username get_cache_filename is called with
MaxKeyLen == 2

\* number of analyze_game_with_cache calls followed in SpecPlain
MaxCalls == 2

\* longest remote history, in games, and the latest creation time of a game
MaxHistory == 3

\* number of iterations of the loop of fetch_all_games followed: more than
\* the requests a history of MaxHistory games is paged through with
MaxPages == MaxHistory + 2

-----------------------------------------------------------------------------
(* Values *)

None == "<None>"

NoneT == [some |-> FALSE, text |-> <<>>]

Some(t) == [some |-> TRUE, text |-> t]

\* An Optional[int]
NoneInt == [some |-> FALSE, n |-> 0]

SomeInt(n) == [some |-> TRUE, n |-> n]

\* str.strip() of the text is empty: every character is whitespace
IsBlank(t) == \A k \in 1..Len(t) : t[k] = " "

\* Python truthiness of an Optional[str]: not None and not ""
Truthy(a) == a.some /\ a.text # <<>>

\* The games of the model. G3 is a record whose white player's name was null in
\* the source file: extract_game_info keeps the None, and .lower() on it raises.
G1 == [game_id |-> <<"a">>, winner |-> "white", white_player |-> "alice",
       black_player |-> "Bob", opening_name |-> "Sicilian", opening_eco |-> "B20",
       total_moves |-> 2, created_at |-> 1]

G2 == [game_id |-> <<"b">>, winner |-> None, white_player |-> "bob",
       black_player |-> "alice", opening_name |-> "Unknown Opening",
       opening_eco |-> "Unknown", total_moves |-> 0, created_at |-> 0]

G3 == [game_id |-> <<"c">>, winner |-> "black", white_player |-> None,
       black_player |-> "alice", opening_name |-> "Caro-Kann", opening_eco |-> "B10",
       total_moves |-> 3, created_at |-> 2]

GameInfos == {G1, G2, G3}

-----------------------------------------------------------------------------
(* The streamed response body *)

\* The text fragments a chunk can carry
Frags == {<<>>, <<"A">>, <<"B">>, <<" ">>}

\* One line of the body:
\*   blank    empty or whitespace only
\*   garbage  not JSON: json.loads raises JSONDecodeError
\*   nonobj   JSON, but no object (a number, null, a list, a string): the
\*            membership test or .get raises TypeError / AttributeError
\*   obj      a JSON object, with an optional "response" and an optional "done"
BlankLine == [kind |-> "blank", has |-> FALSE, resp |-> <<>>, done |-> FALSE]

GarbageLine == [kind |-> "garbage", has |-> FALSE, resp |-> <<>>, done |-> FALSE]

NonObjLine == [kind |-> "nonobj", has |-> FALSE, resp |-> <<>>, done |-> FALSE]

Chunk(has, resp, done) == [kind |-> "obj", has |-> has, resp |-> resp, done |-> done]

ObjLines == {Chunk(TRUE, f, d) : f \in Frags, d \in BOOLEAN}
            \cup {Chunk(FALSE, <<>>, d) : d \in BOOLEAN}

Lines == {BlankLine, GarbageLine, NonObjLine} \cup ObjLines

SeqsUpTo(S, n) == UNION {[1..k -> S] : k \in 0..n}

Streams == SeqsUpTo(Lines, MaxLines)

-----------------------------------------------------------------------------
(* analyze_game_streaming *)

\* A parser that does not stop at the completion flag
LineStep_NoBreak(acc, line) ==
    CASE line.kind = "blank"   -> [acc |-> acc, ctl |-> "next"]
      [] line.kind = "garbage" -> [acc |-> acc, ctl |-> "next"]
      [] line.kind = "nonobj"  -> [acc |-> acc, ctl |-> "raise"]
      [] OTHER ->
            [acc |-> IF line.has THEN acc \o line.resp ELSE acc, ctl |-> "next"]

\* A parser that takes a blank line for the end of the body
LineStep_BlankEnds(acc, line) ==
    CASE line.kind = "blank"   -> [acc |-> acc, ctl |-> "break"]
      [] line.kind = "garbage" -> [acc |-> acc, ctl |-> "next"]
      [] line.kind = "nonobj"  -> [acc |-> acc, ctl |-> "raise"]
      [] OTHER ->
            [acc |-> IF line.has THEN acc \o line.resp ELSE acc,
             ctl |-> IF line.done THEN "break" ELSE "next"]

\* The body of the for loop, lines 67-83, on one line: the new buffer and
\* whether the loop goes on ("next"), breaks ("break") or an exception that is
\* no JSONDecodeError leaves the loop ("raise").
LineStep(acc, line) ==
    CASE line.kind = "blank"   -> [acc |-> acc, ctl |-> "next"]
      [] line.kind = "garbage" -> [acc |-> acc, ctl |-> "next"]
      [] line.kind = "nonobj"  -> [acc |-> acc, ctl |-> "raise"]
      [] OTHER ->
            [acc |-> IF line.has THEN acc \o line.resp ELSE acc,
             ctl |-> IF line.done THEN "break" ELSE "next"]

\* Line 89: the buffer, or None when it is empty or whitespace only
FinalResult(acc) == IF IsBlank(acc) THEN NoneT ELSE Some(acc)

\* A handler that returns what was accumulated before the timeout
TimeoutResult_KeepPartial(acc) == IF IsBlank(acc) THEN NoneT ELSE Some(acc)

\* Lines 91-93: a RequestException while the body is read (a read timeout, a
\* broken connection); the buffer is dropped
TimeoutResult(acc) == NoneT

\* Lines 94-96: any other exception in the loop; the buffer is dropped
ErrorResult(acc) == NoneT

\* format_game_for_analysis (line 36, game_analyzer.py 176) and the print of
\* line 46 call game.white_player.lower(): they raise on a player that is no str
PromptRaises(game) == game.white_player = None

\* What the inference service does during one call: whether the probe reaches
\* it, whether the POST succeeds, the body it streams, and the line whose read
\* times out (0: none).
Env(reachable, post_ok, body, cut) ==
    [reachable |-> reachable, post_ok |-> post_ok, body |-> body, cut |-> cut]

\* Lines 66-96 from line k of the body on, with buffer acc
RECURSIVE ParseFrom(_, _, _, _)
ParseFrom(body, cut, k, acc) ==
    IF k = cut THEN TimeoutResult(acc)
    ELSE IF k > Len(body) THEN FinalResult(acc)
    ELSE LET r == LineStep(acc, body[k]) IN
         CASE r.ctl = "next"  -> ParseFrom(body, cut, k + 1, r.acc)
           [] r.ctl = "break" -> FinalResult(r.acc)
           [] OTHER           -> ErrorResult(r.acc)

\* analyze_game_streaming as a whole: whether it raised, the value returned,
\* and whether the probe and the generate request were sent
AnalyzeGameStreaming(game, env) ==
    IF ~env.reachable
    THEN [raised |-> FALSE, value |-> NoneT, probed |-> TRUE, posted |-> FALSE]
    ELSE IF PromptRaises(game)
    THEN [raised |-> TRUE, value |-> NoneT, probed |-> TRUE, posted |-> FALSE]
    ELSE IF ~env.post_ok
    THEN [raised |-> FALSE, value |-> NoneT, probed |-> TRUE, posted |-> TRUE]
    ELSE [raised |-> FALSE, value |-> ParseFrom(env.body, env.cut, 1, <<>>),
          probed |-> TRUE, posted |-> TRUE]

-----------------------------------------------------------------------------
(* The cache: game_analyzer.py, OllamaAnalyzer *)

\* The default username and model of analyze_all_games, and the cache directory
Username == <<"u">>

Model == <<"m", ":", "1">>

CacheDir == <<"analysis_cache">>

\* Line 272: model.replace(":", "_").replace("/", "_")
SafeModel(model) ==
    [k \in 1..Len(model) |-> IF model[k] \in {":", "/"} THEN "_" ELSE model[k]]

\* os.path.join: an absolute second part drops the first
PathJoin(dir, name) ==
    IF name # <<>> /\ name[1] = "/" THEN name ELSE dir \o <<"/">> \o name

\* Lines 270-273
GetCacheFilename(game_id, model, username) ==
    PathJoin(CacheDir,
             game_id \o <<"_">> \o username \o <<"_">> \o SafeModel(model) \o <<".json">>)

\* datetime.isoformat(): the text of a point in time
IsoFormat(t) == <<"iso", t>>

\* Lines 277-292: the dict that is dumped
CacheData(game_id, model, username, analysis, ts, game_info) ==
    [game_id |-> game_id, model |-> model, username |-> username,
     analysis |-> analysis, timestamp |-> IsoFormat(ts),
     game_info |-> [white_player |-> game_info.white_player,
                    black_player |-> game_info.black_player,
                    winner |-> game_info.winner,
                    opening_name |-> game_info.opening_name,
                    opening_eco |-> game_info.opening_eco,
                    total_moves |-> game_info.total_moves,
                    created_at |-> IsoFormat(game_info.created_at)]]

\* JSON values
JStr(v) == <<"string", v>>

JNum(n) == <<"number", n>>

JNull == <<"null">>

\* A serializer that writes None as its Python text
DumpOptStr_Repr(v) == IF v = None THEN JStr("None") ELSE JStr(v)

\* json.dump of a value that is a str or None
DumpOptStr(v) == IF v = None THEN JNull ELSE JStr(v)

\* json.load of a JSON value
LoadValue(j) == IF j[1] = "null" THEN None ELSE j[2]

\* Line 297: json.dump(cache_data, f)
JsonDump(cd) ==
    [game_id |-> JStr(cd.game_id), model |-> JStr(cd.model),
     username |-> JStr(cd.username), analysis |-> JStr(cd.analysis),
     timestamp |-> JStr(cd.timestamp),
     game_info |-> [white_player |-> DumpOptStr(cd.game_info.white_player),
                    black_player |-> DumpOptStr(cd.game_info.black_player),
                    winner |-> DumpOptStr(cd.game_info.winner),
                    opening_name |-> DumpOptStr(cd.game_info.opening_name),
                    opening_eco |-> DumpOptStr(cd.game_info.opening_eco),
                    total_moves |-> JNum(cd.game_info.total_moves),
                    created_at |-> JStr(cd.game_info.created_at)]]

\* Line 311: json.load(f) of a file json.dump wrote
JsonLoad(doc) ==
    [game_id |-> LoadValue(doc.game_id), model |-> LoadValue(doc.model),
     username |-> LoadValue(doc.username), analysis |-> LoadValue(doc.analysis),
     timestamp |-> LoadValue(doc.timestamp),
     game_info |-> [white_player |-> LoadValue(doc.game_info.white_player),
                    black_player |-> LoadValue(doc.game_info.black_player),
                    winner |-> LoadValue(doc.game_info.winner),
                    opening_name |-> LoadValue(doc.game_info.opening_name),
                    opening_eco |-> LoadValue(doc.game_info.opening_eco),
                    total_moves |-> LoadValue(doc.game_info.total_moves),
                    created_at |-> LoadValue(doc.game_info.created_at)]]

\* The content of a cache file: none, text json.load cannot parse (the file
\* open(.., 'w') truncated and a failed dump left), or a dumped document
Missing == [state |-> "missing", doc |-> <<>>]

Corrupt == [state |-> "corrupt", doc |-> <<>>]

JsonFile(doc) == [state |-> "json", doc |-> doc]

\* How a write ends: done; open() fails, the file is not touched; json.dump
\* fails after open() truncated the file
SaveOutcomes == {"ok", "open_fails", "dump_fails"}

\* Lines 275-300: the directory after save_analysis_to_cache; it never raises
SaveAnalysisToCache(d, game_id, model, username, analysis, game_info, ts, io) ==
    LET cache_file == GetCacheFilename(game_id, model, username)
        cache_data == CacheData(game_id, model, username, analysis, ts, game_info)
    IN  CASE io = "ok"         -> [d EXCEPT ![cache_file] = JsonFile(JsonDump(cache_data))]
          [] io = "dump_fails" -> [d EXCEPT ![cache_file] = Corrupt]
          [] OTHER             -> d

NotFound == [found |-> FALSE, data |-> <<>>]

Found(cache_data) == [found |-> TRUE, data |-> cache_data]

\* A cache that takes an unreadable file for an entry
LoadAnalysisFromCache_CorruptFound(d, game_id, model, username) ==
    LET cache_file == GetCacheFilename(game_id, model, username) IN
    IF d[cache_file].state = "missing" THEN NotFound
    ELSE IF d[cache_file].state = "corrupt" THEN Found([analysis |-> <<"?">>])
    ELSE Found(JsonLoad(d[cache_file].doc))

\* A cache that never finds an entry
LoadAnalysisFromCache_Miss(d, game_id, model, username) == NotFound

\* Lines 302-316: load_analysis_from_cache; it never raises
LoadAnalysisFromCache(d, game_id, model, username) ==
    LET cache_file == GetCacheFilename(game_id, model, username) IN
    IF d[cache_file].state = "missing" THEN NotFound
    ELSE IF d[cache_file].state = "corrupt" THEN NotFound
    ELSE Found(JsonLoad(d[cache_file].doc))

\* The identities the cache is used with
CacheGameIds == {<<"a">>, <<"a", "_", "b">>}

CacheUsers == {<<"u">>, <<"b", "_", "u">>}

CacheModels == {<<"m", ":", "1">>, <<"m", "/", "1">>}

CacheTexts == {<<"A">>, <<"A", "B">>}

CacheFiles ==
    {GetCacheFilename(g, m, u) :
        g \in CacheGameIds \cup {x.game_id : x \in GameInfos},
        m \in CacheModels, u \in CacheUsers}

NoData == <<>>

\* The history of full writes after a save
WrittenAfter(w, game_id, model, username, analysis, game_info, ts, io) ==
    LET cache_file == GetCacheFilename(game_id, model, username)
        cache_data == CacheData(game_id, model, username, analysis, ts, game_info)
    IN  CASE io = "ok"         -> [w EXCEPT ![cache_file] = cache_data]
          [] io = "dump_fails" -> [w EXCEPT ![cache_file] = NoData]
          [] OTHER             -> w

NotLoaded == [called |-> FALSE]

-----------------------------------------------------------------------------
(* The analysis without streaming: game_analyzer.py, analyze_game *)

\* The body of the answer to the generate request: no JSON; JSON that is no
\* object; an object with or without "response"
BadJsonReply == [kind |-> "badjson", has |-> FALSE, resp |-> <<>>]

NonObjReply == [kind |-> "nonobj", has |-> FALSE, resp |-> <<>>]

ObjReply(has, resp) == [kind |-> "obj", has |-> has, resp |-> resp]

PlainReplies ==
    {BadJsonReply, NonObjReply, ObjReply(FALSE, <<>>), ObjReply(TRUE, <<>>),
     ObjReply(TRUE, <<"A">>)}

PlainEnvs ==
    {[reachable |-> FALSE, post_ok |-> FALSE, reply |-> BadJsonReply],
     [reachable |-> TRUE, post_ok |-> FALSE, reply |-> BadJsonReply]}
    \cup {[reachable |-> TRUE, post_ok |-> TRUE, reply |-> r] : r \in PlainReplies}

\* Line 261: the default of result.get('response', ...)
NoAnalysisReturned == <<"No analysis returned">>

\* Lines 228-268: analyze_game. from_service tells whether the value is text
\* the service sent.
AnalyzeGame(game, env) ==
    LET quiet == [raised |-> FALSE, value |-> NoneT, probed |-> TRUE,
                  posted |-> TRUE, from_service |-> FALSE]
    IN  IF ~env.reachable THEN [quiet EXCEPT !.posted = FALSE]
        ELSE IF PromptRaises(game)
             THEN [quiet EXCEPT !.raised = TRUE, !.posted = FALSE]
        ELSE IF ~env.post_ok THEN quiet
        ELSE CASE env.reply.kind = "badjson" -> quiet
               [] env.reply.kind = "nonobj"  -> [quiet EXCEPT !.raised = TRUE]
               [] OTHER ->
                    IF env.reply.has
                    THEN [quiet EXCEPT !.value = Some(env.reply.resp),
                                       !.from_service = TRUE]
                    ELSE [quiet EXCEPT !.value = Some(NoAnalysisReturned)]

\* Lines 318-344: analyze_game_with_cache
AnalyzeGameWithCache(d, ts, game, username, model, force, env, io) ==
    LET cached_analysis == LoadAnalysisFromCache(d, game.game_id, model, username)
    IN  IF ~force /\ cached_analysis.found
        THEN [raised |-> FALSE, probed |-> FALSE, posted |-> FALSE,
              from_service |-> FALSE, save |-> "none",
              analysis |-> Some(cached_analysis.data.analysis), disk |-> d]
        ELSE LET s == AnalyzeGame(game, env) IN
             IF ~s.raised /\ Truthy(s.value)
             THEN [raised |-> FALSE, probed |-> s.probed, posted |-> s.posted,
                   from_service |-> s.from_service, save |-> io,
                   analysis |-> s.value,
                   disk |-> SaveAnalysisToCache(d, game.game_id, model, username,
                                                s.value.text, game, ts, io)]
             ELSE [raised |-> s.raised, probed |-> s.probed, posted |-> s.posted,
                   from_service |-> FALSE, save |-> "none",
                   analysis |-> IF s.raised THEN NoneT ELSE s.value, disk |-> d]

-----------------------------------------------------------------------------
(* analyze_all_games.py *)

\* A variant that consults the cache whatever force_refresh is
AnalyzeGameWithStreamingCache_CacheFirst(d, ts, game, username, model, force, env, io) ==
    LET cached_analysis == LoadAnalysisFromCache(d, game.game_id, model, username)
    IN  IF cached_analysis.found
        THEN [raised |-> FALSE, probed |-> FALSE, posted |-> FALSE,
              save |-> "none", analysis |-> Some(cached_analysis.data.analysis),
              disk |-> d]
        ELSE LET s == AnalyzeGameStreaming(game, env) IN
             IF ~s.raised /\ Truthy(s.value)
             THEN [raised |-> FALSE, probed |-> s.probed, posted |-> s.posted,
                   save |-> io, analysis |-> s.value,
                   disk |-> SaveAnalysisToCache(d, game.game_id, model, username,
                                                s.value.text, game, ts, io)]
             ELSE [raised |-> s.raised, probed |-> s.probed, posted |-> s.posted,
                   save |-> "none", analysis |-> NoneT, disk |-> d]

\* A variant in which a failed write of the entry loses the analysis
AnalyzeGameWithStreamingCache_WriteFails(d, ts, game, username, model, force, env, io) ==
    LET cached_analysis == LoadAnalysisFromCache(d, game.game_id, model, username)
    IN  IF ~force /\ cached_analysis.found
        THEN [raised |-> FALSE, probed |-> FALSE, posted |-> FALSE,
              save |-> "none", analysis |-> Some(cached_analysis.data.analysis),
              disk |-> d]
        ELSE LET s == AnalyzeGameStreaming(game, env) IN
             IF ~s.raised /\ Truthy(s.value)
             THEN [raised |-> io # "ok", probed |-> s.probed, posted |-> s.posted,
                   save |-> io, analysis |-> IF io = "ok" THEN s.value ELSE NoneT,
                   disk |-> SaveAnalysisToCache(d, game.game_id, model, username,
                                                s.value.text, game, ts, io)]
             ELSE [raised |-> s.raised, probed |-> s.probed, posted |-> s.posted,
                   save |-> "none", analysis |-> NoneT, disk |-> d]

\* Lines 98-125: analyze_game_with_streaming_cache
AnalyzeGameWithStreamingCache(d, ts, game, username, model, force, env, io) ==
    LET cached_analysis == LoadAnalysisFromCache(d, game.game_id, model, username)
    IN  IF ~force /\ cached_analysis.found
        THEN [raised |-> FALSE, probed |-> FALSE, posted |-> FALSE,
              save |-> "none", analysis |-> Some(cached_analysis.data.analysis),
              disk |-> d]
        ELSE LET s == AnalyzeGameStreaming(game, env) IN
             IF ~s.raised /\ Truthy(s.value)
             THEN [raised |-> FALSE, probed |-> s.probed, posted |-> s.posted,
                   save |-> io, analysis |-> s.value,
                   disk |-> SaveAnalysisToCache(d, game.game_id, model, username,
                                                s.value.text, game, ts, io)]
             ELSE [raised |-> s.raised, probed |-> s.probed, posted |-> s.posted,
                   save |-> "none", analysis |-> NoneT, disk |-> d]

\* Line 162: the place of the first game with the identity, the first place
\* when there is none (1-based)
\* A resume that finds nothing to do when no game has the identity
StartIndex_UnknownSkipsAll(gs, sf) ==
    IF \E k \in 1..Len(gs) : gs[k].game_id = sf
    THEN CHOOSE k \in 1..Len(gs) :
            /\ gs[k].game_id = sf
            /\ \A j \in 1..(k - 1) : gs[j].game_id # sf
    ELSE Len(gs) + 1

\* Line 162: next((i for i, g in enumerate(games) if g.game_id == start_from), 0),
\* counted from 1
StartIndex(gs, sf) ==
    IF \E k \in 1..Len(gs) : gs[k].game_id = sf
    THEN CHOOSE k \in 1..Len(gs) :
            /\ gs[k].game_id = sf
            /\ \A j \in 1..(k - 1) : gs[j].game_id # sf
    ELSE 1

\* A resume that starts after the matching game
ResumeSlice_AfterMatch(gs, sf) ==
    IF sf # <<>> THEN SubSeq(gs, StartIndex(gs, sf) + 1, Len(gs)) ELSE gs

\* Lines 160-164
ResumeSlice(gs, sf) ==
    IF sf # <<>> THEN SubSeq(gs, StartIndex(gs, sf), Len(gs)) ELSE gs

\* A batch without the cap
Truncate_NoCap(gs, mx) == gs

\* Lines 166-169: `if max_games and max_games > 0`
Truncate(gs, mx) ==
    IF mx.some /\ mx.n # 0 /\ mx.n > 0
    THEN SubSeq(gs, 1, IF mx.n < Len(gs) THEN mx.n ELSE Len(gs))
    ELSE gs

\* Lines 185-192
NewStats(n) ==
    [total_games |-> n, successful_analyses |-> 0, failed_analyses |-> 0,
     cached_analyses |-> 0, analyzed_games |-> <<>>]

\* Statistics that never count a cache hit
UpdateStats_CachedUncounted(st, game, is_cached, r) ==
    IF ~r.raised /\ Truthy(r.analysis)
    THEN [st EXCEPT !.successful_analyses = @ + 1]
    ELSE [st EXCEPT !.failed_analyses = @ + 1]

\* Statistics that count a record without a result as a success
UpdateStats_NoneSucceeds(st, game, is_cached, r) ==
    IF r.raised
    THEN [st EXCEPT !.failed_analyses = @ + 1]
    ELSE [st EXCEPT !.successful_analyses = @ + 1]

\* Statistics that leave out a record whose processing raised
UpdateStats_RaiseUncounted(st, game, is_cached, r) ==
    IF r.raised
    THEN st
    ELSE IF Truthy(r.analysis)
         THEN [st EXCEPT !.successful_analyses = @ + 1,
                         !.cached_analyses = IF is_cached THEN @ + 1 ELSE @]
         ELSE [st EXCEPT !.failed_analyses = @ + 1]

\* Lines 212-234: the statistics after one record
\* A loop that keeps no summary of a game served from the cache
UpdateStats_NoSummaryForCached(st, game, is_cached, r) ==
    IF ~r.raised /\ Truthy(r.analysis)
    THEN [st EXCEPT
            !.successful_analyses = @ + 1,
            !.cached_analyses = IF is_cached THEN @ + 1 ELSE @,
            !.analyzed_games = IF is_cached THEN @ ELSE Append(@,
                [game_id |-> game.game_id, opening |-> game.opening_name,
                 result |-> IF game.winner = None THEN "draw" ELSE game.winner,
                 total_moves |-> game.total_moves,
                 analysis_length |-> Len(r.analysis.text),
                 was_cached |-> is_cached])]
    ELSE [st EXCEPT !.failed_analyses = @ + 1]

UpdateStats(st, game, is_cached, r) ==
    IF ~r.raised /\ Truthy(r.analysis)
    THEN [st EXCEPT
            !.successful_analyses = @ + 1,
            !.cached_analyses = IF is_cached THEN @ + 1 ELSE @,
            !.analyzed_games = Append(@,
                [game_id |-> game.game_id, opening |-> game.opening_name,
                 result |-> IF game.winner = None THEN "draw" ELSE game.winner,
                 total_moves |-> game.total_moves,
                 analysis_length |-> Len(r.analysis.text),
                 was_cached |-> is_cached])]
    ELSE [st EXCEPT !.failed_analyses = @ + 1]

\* What the inference service may do during one call of the batch
BodyAB == <<Chunk(TRUE, <<"A">>, FALSE), Chunk(TRUE, <<"B">>, TRUE)>>

BatchEnvs ==
    {Env(FALSE, FALSE, <<>>, 0),
     Env(TRUE, FALSE, <<>>, 0),
     Env(TRUE, TRUE, BodyAB, 0),
     Env(TRUE, TRUE, BodyAB, 2),
     Env(TRUE, TRUE, <<Chunk(TRUE, <<" ">>, TRUE)>>, 0),
     Env(TRUE, TRUE, <<Chunk(TRUE, <<"A">>, FALSE), NonObjLine>>, 0)}

\* The games of the input file: a drawn game, and the game whose prompt raises
BatchGames == {G2, G3}

\* --start-from: not given, an identity no game has, the identities of G2 and G3
StartFromValues == {<<>>, <<"z">>, <<"b">>, <<"c">>}

\* --max-games: not given, 0, and two caps
MaxGamesValues == {NoneInt, SomeInt(0), SomeInt(1), SomeInt(2)}

DelayValues == {0, 2}

\* The entry an earlier run left for a game
OldContent(g, st) ==
    IF st = "old"
    THEN JsonFile(JsonDump(CacheData(g.game_id, Model, Username, <<"O">>, 0, g)))
    ELSE Missing

------------------------------------------------------------------------------
(* extract_game_info and analyze_games_from_file *)

\* What json.load makes of a JSON document: None, a str, an int, a list, or a
\* dict, which is a function from the keys it has to values
PyNone == [k |-> "None"]

PyStr(t) == [k |-> "str", s |-> t]

PyInt(n) == [k |-> "int", n |-> n]

PyList(l) == [k |-> "list", l |-> l]

PyDict(f) == [k |-> "dict", f |-> f]

\* A key a dict does not have; Dict leaves it out
Absent == [k |-> "absent"]

Dict(f) == PyDict([key \in {x \in DOMAIN f : f[x] # Absent} |-> f[key]])

EmptyDict == PyDict([key \in {} |-> Absent])

\* An AttributeError or TypeError in the middle of an expression
Raised == [k |-> "raised"]

\* d.get(key, default): only a dict has .get
PyGet(d, key, default) ==
    IF d.k = "raised" THEN Raised
    ELSE IF d.k # "dict" THEN Raised
    ELSE IF key \in DOMAIN d.f THEN d.f[key] ELSE default

\* The truth value of a value in a condition
PyTruthy(v) ==
    CASE v.k = "None" -> FALSE
      [] v.k = "str"  -> v.s # <<>>
      [] v.k = "int"  -> v.n # 0
      [] v.k = "list" -> v.l # <<>>
      [] v.k = "dict" -> DOMAIN v.f # {}
      [] OTHER -> FALSE

RECURSIVE SplitFrom(_, _, _, _)
\* str.split() from character k on: cur is the word being read, out the words
\* read so far
SplitFrom(t, k, cur, out) ==
    IF k > Len(t)
    THEN IF cur = <<>> THEN out ELSE Append(out, cur)
    ELSE IF t[k] = " "
         THEN SplitFrom(t, k + 1, <<>>, IF cur = <<>> THEN out ELSE Append(out, cur))
         ELSE SplitFrom(t, k + 1, Append(cur, t[k]), out)

\* Line 54: moves_string.split()
Split(t) == SplitFrom(t, 1, <<>>, <<>>)

\* A count of full moves, a pair of plies each
TotalMoves_Pairs(moves) == (Len(moves) + 1) \div 2

\* Line 85: total_moves=len(moves)
TotalMoves(moves) == Len(moves)

Unknown == <<"Unknown">>

UnknownOpening == <<"Unknown Opening">>

\* Line 70: f"{initial_time}+{increment}"
TimeControl(initial_time, increment) == <<initial_time, "+", increment>>

NoGameInfo == [game_id |-> PyNone]

\* Lines 32-86. The fields of the GameInfo hold what .get returned, whatever
\* its type; created_at is the time in milliseconds the datetime stands for.
ExtractGameInfo(game_data) ==
    LET winner == PyGet(game_data, "winner", PyNone)
        players == PyGet(game_data, "players", EmptyDict)
        white_player == PyGet(PyGet(PyGet(players, "white", EmptyDict),
                                    "user", EmptyDict), "name", PyStr(Unknown))
        black_player == PyGet(PyGet(PyGet(players, "black", EmptyDict),
                                    "user", EmptyDict), "name", PyStr(Unknown))
        white_rating == PyGet(PyGet(players, "white", EmptyDict), "rating", PyInt(0))
        black_rating == PyGet(PyGet(players, "black", EmptyDict), "rating", PyInt(0))
        moves_string == PyGet(game_data, "moves", PyStr(<<>>))
        moves_raise == PyTruthy(moves_string) /\ moves_string.k # "str"
        moves == IF PyTruthy(moves_string) /\ moves_string.k = "str"
                 THEN Split(moves_string.s) ELSE <<>>
        opening == PyGet(game_data, "opening", EmptyDict)
        opening_name == PyGet(opening, "name", PyStr(UnknownOpening))
        opening_eco == PyGet(opening, "eco", PyStr(Unknown))
        game_id == PyGet(game_data, "id", PyStr(Unknown))
        game_status == PyGet(game_data, "status", PyStr(Unknown))
        created_ms == PyGet(game_data, "createdAt", PyInt(0))
        clock == PyGet(game_data, "clock", EmptyDict)
        initial == PyGet(clock, "initial", PyInt(0))
        increment == PyGet(clock, "increment", PyInt(0))
    IN  IF \/ Raised \in {winner, white_player, black_player, white_rating,
                          black_rating, moves_string, opening_name, opening_eco,
                          game_id, game_status, created_ms, initial, increment}
           \/ moves_raise
           \/ created_ms.k # "int"
           \/ initial.k # "int"
        THEN [raised |-> TRUE, value |-> NoGameInfo]
        ELSE [raised |-> FALSE,
              value |-> [game_id |-> game_id, winner |-> winner,
                         white_player |-> white_player,
                         black_player |-> black_player,
                         white_rating |-> white_rating,
                         black_rating |-> black_rating,
                         moves |-> moves,
                         opening_name |-> opening_name,
                         opening_eco |-> opening_eco,
                         game_status |-> game_status,
                         time_control |-> TimeControl(initial.n \div 60, increment),
                         created_at |-> created_ms.n,
                         total_moves |-> TotalMoves(moves)]]

\* The content of lichess_games.json: no file, text that is not JSON, or a
\* JSON list
NoFile == [state |-> "missing", data |-> <<>>]

NotJson == [state |-> "invalid", data |-> <<>>]

GamesList(l) == [state |-> "list", data |-> l]

\* Lines 88-112: any exception of the comprehension is caught and the list
\* returned is empty
AnalyzeGamesFromFile(content) ==
    IF content.state # "list" THEN <<>>
    ELSE IF \E k \in 1..Len(content.data) : ExtractGameInfo(content.data[k]).raised
         THEN <<>>
         ELSE [k \in 1..Len(content.data) |-> ExtractGameInfo(content.data[k]).value]

\* A side of a game, and a game, as the source service sends them
RawSide(name, rating) == Dict([user |-> Dict([name |-> name]), rating |-> rating])

RawGame(id, winner, players, moves, opening, status, created, clock) ==
    Dict([id |-> id, winner |-> winner, players |-> players, moves |-> moves,
          opening |-> opening, status |-> status, createdAt |-> created,
          clock |-> clock])

\* What a field may hold in place of its value: nothing, null, or a value of
\* another type
Misfits == {Absent, PyNone, PyStr(<<"x">>), PyInt(7), PyList(<<>>), EmptyDict}

\* The raw games of the model: two games with every field in place, two
\* values that are no objects, the first game with another moves string, and
\* the first game with one field or sub-field missing or malformed
RawGames ==
    LET id == PyStr(<<"a">>)
        winner == PyStr(<<"white">>)
        white == RawSide(PyStr(<<"alice">>), PyInt(1500))
        black == RawSide(PyStr(<<"Bob">>), PyInt(1400))
        players == Dict([white |-> white, black |-> black])
        moves == PyStr(<<"e", " ", "d">>)
        opening == Dict([name |-> PyStr(<<"Sicilian">>), eco |-> PyStr(<<"B20">>)])
        status == PyStr(<<"mate">>)
        created == PyInt(1000)
        clock == Dict([initial |-> PyInt(600), increment |-> PyInt(5)])
    IN  {RawGame(id, winner, players, moves, opening, status, created, clock),
         RawGame(PyStr(<<"b">>), Absent, players, moves, opening,
                 PyStr(<<"draw">>), PyInt(2000), clock),
         PyNone, PyStr(<<"x">>)}
        \cup {RawGame(id, winner, players, PyStr(t), opening, status, created, clock) :
                t \in SeqsUpTo({"e", "d", " "}, MaxMovesLen)}
        \cup UNION {
            {RawGame(m, winner, players, moves, opening, status, created, clock),
             RawGame(id, winner, m, moves, opening, status, created, clock),
             RawGame(id, winner, Dict([white |-> m, black |-> black]), moves,
                     opening, status, created, clock),
             RawGame(id, winner,
                     Dict([white |-> Dict([user |-> m, rating |-> PyInt(1500)]),
                           black |-> black]),
                     moves, opening, status, created, clock),
             RawGame(id, winner,
                     Dict([white |-> RawSide(m, PyInt(1500)), black |-> black]),
                     moves, opening, status, created, clock),
             RawGame(id, winner,
                     Dict([white |-> RawSide(PyStr(<<"alice">>), m), black |-> black]),
                     moves, opening, status, created, clock),
             RawGame(id, winner, players, m, opening, status, created, clock),
             RawGame(id, winner, players, moves, m, status, created, clock),
             RawGame(id, winner, players, moves,
                     Dict([name |-> m, eco |-> PyStr(<<"B20">>)]),
                     status, created, clock),
             RawGame(id, winner, players, moves, opening, m, created, clock),
             RawGame(id, winner, players, moves, opening, status, m, clock),
             RawGame(id, winner, players, moves, opening, status, created, m),
             RawGame(id, winner, players, moves, opening, status, created,
                     Dict([initial |-> m, increment |-> PyInt(5)])),
             RawGame(id, winner, players, moves, opening, status, created,
                     Dict([initial |-> PyInt(600), increment |-> m]))} :
            m \in Misfits}

\* The games files of the model: none, one that is not JSON, and the lists of
\* two games with every field in place, a game without its moves and a game
\* with null for its players
GamesFiles ==
    LET players == Dict([white |-> RawSide(PyStr(<<"alice">>), PyInt(1500)),
                         black |-> RawSide(PyStr(<<"Bob">>), PyInt(1400))])
        moves == PyStr(<<"e", " ", "d">>)
        GameWith(id, ps, ms) ==
            RawGame(PyStr(id), PyStr(<<"white">>), ps, ms,
                    Dict([name |-> PyStr(<<"Sicilian">>), eco |-> PyStr(<<"B20">>)]),
                    PyStr(<<"mate">>), PyInt(1000),
                    Dict([initial |-> PyInt(600), increment |-> PyInt(5)]))
        FileGames == {GameWith(<<"a">>, players, moves),
                      GameWith(<<"b">>, players, moves),
                      GameWith(<<"c">>, players, Absent),
                      GameWith(<<"d">>, PyNone, moves)}
    IN  {NoFile, NotJson} \cup {GamesList(l) : l \in SeqsUpTo(FileGames, MaxRaw)}

------------------------------------------------------------------------------
(* OllamaAnalyzer.format_game_for_analysis *)

\* str.lower() of a text
Lower(t) ==
    [k \in 1..Len(t) |-> CASE t[k] = "A" -> "a" [] t[k] = "B" -> "b" [] OTHER -> t[k]]

\* A formatter that looks for the player on the black side first
UserColor_BlackElseWhite(game, username) ==
    IF Lower(game.black_player.s) = Lower(username) THEN "Black" ELSE "White"

\* Line 176
UserColor(game, username) ==
    IF Lower(game.white_player.s) = Lower(username) THEN "White" ELSE "Black"

\* A result seen from the white side whatever the colour of the player
Outcome_ForWhite(user_color, winner) ==
    IF winner = PyNone THEN "Draw"
    ELSE IF winner = PyStr(<<"white">>) THEN "Win" ELSE "Loss"

\* Lines 181-188
Outcome(user_color, winner) ==
    IF winner = PyNone THEN "Draw"
    ELSE IF \/ (user_color = "White" /\ winner = PyStr(<<"white">>))
            \/ (user_color = "Black" /\ winner = PyStr(<<"black">>))
         THEN "Win"
         ELSE "Loss"

RECURSIVE DecimalText(_)
\* The text of a number in an f-string
DecimalText(n) ==
    LET digits == <<"0", "1", "2", "3", "4", "5", "6", "7", "8", "9">>
    IN  IF n < 10 THEN <<digits[n + 1]>>
        ELSE DecimalText(n \div 10) \o <<digits[(n % 10) + 1]>>

\* A numbering by the place of the white move in the list
MoveNum_Place(idx) == idx + 1

\* Line 195, idx counted from 0
MoveNum(idx) == (idx \div 2) + 1

\* Lines 193-199: the item of the pair that starts at place idx, counted from 0
MovePair(moves, idx) ==
    LET white_move == IF idx < Len(moves) THEN moves[idx + 1] ELSE <<>>
        black_move == IF idx + 1 < Len(moves) THEN moves[idx + 2] ELSE <<>>
    IN  IF black_move # <<>>
        THEN DecimalText(MoveNum(idx)) \o <<".", " ">> \o white_move
                \o <<" ">> \o black_move
        ELSE DecimalText(MoveNum(idx)) \o <<".", " ">> \o white_move

RECURSIVE MovePairsFrom(_, _)
\* Lines 191-199: for i in range(0, len(game.moves), 2)
MovePairsFrom(moves, idx) ==
    IF idx >= Len(moves) THEN <<>>
    ELSE <<MovePair(moves, idx)>> \o MovePairsFrom(moves, idx + 2)

RECURSIVE JoinSpace(_)
\* Line 201: " ".join(move_pairs)
JoinSpace(items) ==
    IF items = <<>> THEN <<>>
    ELSE IF Len(items) = 1 THEN items[1]
    ELSE items[1] \o <<" ">> \o JoinSpace(Tail(items))

NoFields == [user_color |-> "none"]

\* Lines 174-226: the values the template of the prompt is filled with;
\* .lower() of a white_player that is not a str raises
FormatGameForAnalysis(game, username) ==
    IF game.white_player.k # "str"
    THEN [raised |-> TRUE, value |-> NoFields]
    ELSE LET user_color == UserColor(game, username)
             opponent == IF user_color = "White" THEN game.black_player
                         ELSE game.white_player
             user_rating == IF user_color = "White" THEN game.white_rating
                            ELSE game.black_rating
             opponent_rating == IF user_color = "White" THEN game.black_rating
                                ELSE game.white_rating
             outcome == Outcome(user_color, game.winner)
             formatted_moves == JoinSpace(MovePairsFrom(game.moves, 0))
         IN  [raised |-> FALSE,
              value |-> [username |-> username, user_rating |-> user_rating,
                         opponent |-> opponent, opponent_rating |-> opponent_rating,
                         user_color |-> user_color, result |-> outcome,
                         opening_name |-> game.opening_name,
                         opening_eco |-> game.opening_eco,
                         game_status |-> game.game_status,
                         time_control |-> game.time_control,
                         total_moves |-> game.total_moves,
                         formatted_moves |-> formatted_moves]]

\* The names of the players of the games, and of the player coached
PlayerNames == {<<"a">>, <<"A">>, <<"b">>, <<"a", "b">>}

\* A GameInfo as extract_game_info builds it
GameOf(white, black, winner, moves) ==
    [game_id |-> PyStr(<<"a">>), winner |-> winner,
     white_player |-> white, black_player |-> black,
     white_rating |-> PyInt(1500), black_rating |-> PyInt(1400),
     moves |-> moves,
     opening_name |-> PyStr(<<"Sicilian">>), opening_eco |-> PyStr(<<"B20">>),
     game_status |-> PyStr(<<"mate">>),
     time_control |-> TimeControl(10, PyInt(5)),
     created_at |-> 1000, total_moves |-> TotalMoves(moves)]

\* The games the formatter is given: a draw, a win of White and a win of
\* Black for every two names and every list of moves, and games of a white
\* player whose name was null
FormatGames ==
    LET winners == {PyNone, PyStr(<<"white">>), PyStr(<<"black">>)}
        move_lists == SeqsUpTo({<<"e", "4">>, <<"d">>}, MaxMoves)
    IN  {GameOf(PyStr(w), PyStr(b), win, ms) :
            w \in PlayerNames, b \in PlayerNames, win \in winners, ms \in move_lists}
        \cup {GameOf(PyNone, PyStr(b), win, <<>>) : b \in PlayerNames, win \in winners}

------------------------------------------------------------------------------
(* list_cached_analyses *)

\* A file that cannot be opened, and a file json.load cannot parse
Unreadable == [k |-> "unreadable"]

Unparseable == [k |-> "unparseable"]

\* Line 399: filename.endswith('.json'); a file name is its stem and its suffix
EndsWithJson(filename) == filename[Len(filename)] = ".json"

\* Lines 401-415: the metadata of one file, or Raised when the try block raises
MetadataOf(filename, content) ==
    IF content.k \in {"unreadable", "unparseable"} THEN Raised
    ELSE LET game_id == PyGet(content, "game_id", PyNone)
             model == PyGet(content, "model", PyNone)
             username == PyGet(content, "username", PyNone)
             timestamp == PyGet(content, "timestamp", PyNone)
             opening == PyGet(PyGet(content, "game_info", EmptyDict),
                              "opening_name", PyStr(Unknown))
         IN  IF Raised \in {game_id, model, username, timestamp, opening}
             THEN Raised
             ELSE [k |-> "item", filename |-> filename, game_id |-> game_id,
                   model |-> model, username |-> username,
                   timestamp |-> timestamp, opening |-> opening]

\* Line 417: x['timestamp'] or ''
SortKey(item) == IF PyTruthy(item.timestamp) THEN item.timestamp.s ELSE <<>>

\* The order of str on sort keys: '' is before every text, and the texts of
\* isoformat are in the order of their times
KeyLessEq(a, b) == a = <<>> \/ (b # <<>> /\ a[2] <= b[2])

\* A sort that puts the least key first
InsertByKey_Ascending(sorted, item) ==
    LET p == Cardinality({k \in 1..Len(sorted) :
                            KeyLessEq(SortKey(sorted[k]), SortKey(item))})
    IN  SubSeq(sorted, 1, p) \o <<item>> \o SubSeq(sorted, p + 1, Len(sorted))

\* Line 417, sorted(..., reverse=True) one item at a time: the item goes after
\* the items of a key not less than its own, which keeps equal keys in their
\* order
InsertByKey(sorted, item) ==
    LET p == Cardinality({k \in 1..Len(sorted) :
                            KeyLessEq(SortKey(item), SortKey(sorted[k]))})
    IN  SubSeq(sorted, 1, p) \o <<item>> \o SubSeq(sorted, p + 1, Len(sorted))

RECURSIVE SortedItems(_, _)
\* Line 417: the items put into the sorted list in the order of the list
SortedItems(items, sorted) ==
    IF items = <<>> THEN sorted
    ELSE SortedItems(Tail(items), InsertByKey(sorted, Head(items)))

RECURSIVE ReadItems(_)
\* Lines 397-415: the loop over os.listdir
ReadItems(files) ==
    IF files = <<>> THEN <<>>
    ELSE LET item == IF EndsWithJson(Head(files).filename)
                     THEN MetadataOf(Head(files).filename, Head(files).content)
                     ELSE Raised
         IN  IF item = Raised THEN ReadItems(Tail(files))
             ELSE <<item>> \o ReadItems(Tail(files))

\* The cache directory: whether it exists, and its files in the order of
\* os.listdir
NoDir == [exists |-> FALSE, files |-> <<>>]

DirOf(files) == [exists |-> TRUE, files |-> files]

\* Lines 384-417
ListCachedAnalyses(dir) ==
    IF ~dir.exists THEN <<>> ELSE SortedItems(ReadItems(dir.files), <<>>)

\* An entry as save_analysis_to_cache writes it, with the timestamp given
EntryOf(timestamp, game_info) ==
    Dict([game_id |-> PyStr(<<"a">>), model |-> PyStr(Model),
          username |-> PyStr(Username), analysis |-> PyStr(<<"A">>),
          timestamp |-> timestamp, game_info |-> game_info])

EntryInfo == Dict([opening_name |-> PyStr(<<"Sicilian">>)])

\* What a file of the directory may hold: an entry of a time, an entry with
\* no timestamp or null for it, an entry without game_info, a cut-off entry, a
\* JSON document that is not an object, or nothing that can be opened
FileContents ==
    {EntryOf(PyStr(IsoFormat(1)), EntryInfo), EntryOf(PyStr(IsoFormat(2)), EntryInfo),
     EntryOf(Absent, EntryInfo), EntryOf(PyNone, EntryInfo),
     EntryOf(PyStr(IsoFormat(1)), Absent),
     Unreadable, Unparseable, PyList(<<>>)}

\* The lists of n file names, no name twice
FileNames(n) ==
    {ns \in [1..n -> {<<"a", ".json">>, <<"b", ".json">>, <<"c", ".json">>,
                      <<"d", ".txt">>}] :
        \A j, k \in 1..n : j # k => ns[j] # ns[k]}

------------------------------------------------------------------------------
(* lichess_games.py: LichessGamesFetcher, the paging of the remote history *)

\* The batch size the API accepts at most
ApiLimit == 30

\* The batch size the loop of fetch_all_games works with
BatchSize(batch_size) == IF batch_size > ApiLimit THEN ApiLimit ELSE batch_size

\* The remote histories of n games, newest first as the service lists them.
\* Of a game, t is the creation time the service files it under and createdAt
\* the field of its JSON object, None when the object has none.
Histories(n) ==
    {[k \in 1..n |-> [id |-> k, t |-> ts[k],
                      createdAt |-> IF sh[k] THEN SomeInt(ts[k]) ELSE NoneInt]] :
        ts \in {f \in [1..n -> 1..MaxHistory] :
                   \A j \in 1..(n - 1) : f[j] >= f[j + 1]},
        sh \in [1..n -> BOOLEAN]}

\* Python's truth value of an Optional[int]
IntTruthy(v) == v.some /\ v.n # 0

\* fetch_games: the games of one request. Without 'until' the service starts
\* at the newest game; with it, at the games created before that time, or at
\* it when the service takes the bound as inclusive. A request that fails
\* yields the empty list.
FetchGames(service, max, until, ok) ==
    LET matching == SelectSeq(service.history,
                        LAMBDA g : \/ ~IntTruthy(until)
                                   \/ g.t < until.n
                                   \/ service.inclusive /\ g.t = until.n)
    IN  IF ~ok THEN <<>>
        ELSE IF max # 0 /\ max < Len(matching)
             THEN SubSeq(matching, 1, max)
             ELSE matching

\* fetch_all_games before its loop
StartFetch(batch_size) ==
    [pc |-> "loop", batch_size |-> BatchSize(batch_size), all_games |-> <<>>,
     batch_num |-> 1, last_timestamp |-> NoneInt, batch_games |-> <<>>,
     requests |-> <<>>]

-----------------------------------------------------------------------------
(* The parts of the state a specification does not use *)

StreamIdle ==
    /\ stream = <<>> /\ sgame = G1 /\ spc = "idle" /\ pos = 0
    /\ full_analysis = <<>> /\ result = NoneT /\ stop = "none"

EmptyDisk == [f \in CacheFiles |-> Missing]

NoWrites == [f \in CacheFiles |-> NoData]

CacheIdle == disk = EmptyDisk /\ now = 0 /\ written = NoWrites

BatchIdle ==
    /\ file = <<>> /\ force_refresh = FALSE /\ start_from = <<>> /\ max_games = NoneInt
    /\ delay_between_games = 0
    /\ bpc = "idle" /\ games = <<>> /\ i = 0 /\ stats = NewStats(0)
    /\ ret = "none" /\ exit_code = -1 /\ run = 0 /\ log = <<>> /\ sleeps = 0

NoArgs == [game_id |-> <<>>, model |-> <<>>, username |-> <<>>]

\* No function has been called; get_cache_filename is to be called with args
FnIdleWith(args) ==
    /\ key_args = args /\ key_file = <<>>
    /\ extracted = [called |-> FALSE, game_data |-> PyNone, raised |-> FALSE,
                    value |-> NoGameInfo]
    /\ from_file = [called |-> FALSE, content |-> NoFile, value |-> <<>>]
    /\ prompt = [called |-> FALSE, game |-> NoGameInfo, username |-> <<>>,
                 raised |-> FALSE, value |-> NoFields]
    /\ listing = [called |-> FALSE, dir |-> NoDir, value |-> <<>>]

FetchIdle ==
    /\ remote = [history |-> <<>>, inclusive |-> FALSE]
    /\ fetch = [pc |-> "idle", batch_size |-> 0, all_games |-> <<>>, batch_num |-> 0,
                last_timestamp |-> NoneInt, batch_games |-> <<>>,
                requests |-> <<>>]

FnIdle == FnIdleWith(NoArgs) /\ FetchIdle

-----------------------------------------------------------------------------
(* One call of analyze_game_streaming, line by line *)

StreamInit ==
    /\ stream \in Streams
    /\ sgame \in {G1, G3}
    /\ spc = "start"
    /\ pos = 0
    /\ full_analysis = <<>>
    /\ result = NoneT
    /\ stop = "none"
    /\ CacheIdle /\ loaded = NotLoaded /\ BatchIdle /\ FnIdle

\* Lines 33-36: the liveness probe, then the prompt
TestConnection ==
    /\ spc = "start"
    /\ \E reachable \in BOOLEAN :
         IF ~reachable
         THEN /\ spc' = "returned" /\ stop' = "probe" /\ result' = NoneT
         ELSE IF PromptRaises(sgame)
              THEN /\ spc' = "raised" /\ stop' = "prompt" /\ result' = NoneT
              ELSE /\ spc' = "post" /\ UNCHANGED <<stop, result>>
    /\ UNCHANGED <<stream, sgame, pos, full_analysis>>
    /\ UNCHANGED <<cacheVars, loaded, paramVars, runVars, fnVars>>

\* Lines 55-63: the POST and raise_for_status
PostRequest ==
    /\ spc = "post"
    /\ \E ok \in BOOLEAN :
         IF ok
         THEN /\ spc' = "reading" /\ full_analysis' = <<>>
              /\ UNCHANGED <<stop, result>>
         ELSE /\ spc' = "returned" /\ stop' = "post" /\ result' = NoneT
              /\ UNCHANGED full_analysis
    /\ UNCHANGED <<stream, sgame, pos>>
    /\ UNCHANGED <<cacheVars, loaded, paramVars, runVars, fnVars>>

\* Lines 66-83 on the next line of the body, and the return of lines 85-89 or
\* 94-96 when the loop ends on it
ReadLine ==
    /\ spc = "reading"
    /\ pos < Len(stream)
    /\ LET r == LineStep(full_analysis, stream[pos + 1]) IN
         /\ pos' = pos + 1
         /\ full_analysis' = r.acc
         /\ CASE r.ctl = "next"  -> UNCHANGED <<spc, stop, result>>
              [] r.ctl = "break" -> /\ spc' = "returned" /\ stop' = "flag"
                                    /\ result' = FinalResult(r.acc)
              [] OTHER           -> /\ spc' = "returned" /\ stop' = "error"
                                    /\ result' = ErrorResult(r.acc)
    /\ UNCHANGED <<stream, sgame>>
    /\ UNCHANGED <<cacheVars, loaded, paramVars, runVars, fnVars>>

\* The body ends: the loop is over, lines 85-89
EndOfStream ==
    /\ spc = "reading"
    /\ pos = Len(stream)
    /\ spc' = "returned" /\ stop' = "eof"
    /\ result' = FinalResult(full_analysis)
    /\ UNCHANGED <<stream, sgame, pos, full_analysis>>
    /\ UNCHANGED <<cacheVars, loaded, paramVars, runVars, fnVars>>

\* The read of the next line times out instead (timeout=300), lines 91-93
ReadTimeout ==
    /\ spc = "reading"
    /\ spc' = "returned" /\ stop' = "timeout"
    /\ result' = TimeoutResult(full_analysis)
    /\ UNCHANGED <<stream, sgame, pos, full_analysis>>
    /\ UNCHANGED <<cacheVars, loaded, paramVars, runVars, fnVars>>

StreamNext == TestConnection \/ PostRequest \/ ReadLine \/ EndOfStream \/ ReadTimeout

SpecStream == StreamInit /\ [][StreamNext]_vars

-----------------------------------------------------------------------------
(* The cache operations, called with any identities *)

CacheInit ==
    /\ disk = EmptyDisk /\ now = 1 /\ written = NoWrites
    /\ loaded = NotLoaded
    /\ StreamIdle /\ BatchIdle /\ FnIdle

\* One call of save_analysis_to_cache
SaveCall ==
    /\ now <= MaxClock
    /\ \E g \in CacheGameIds, m \in CacheModels, u \in CacheUsers,
          a \in CacheTexts, gi \in {G2, G3}, io \in SaveOutcomes :
         /\ disk' = SaveAnalysisToCache(disk, g, m, u, a, gi, now, io)
         /\ written' = WrittenAfter(written, g, m, u, a, gi, now, io)
    /\ now' = now + 1
    /\ UNCHANGED <<loaded, streamVars, paramVars, runVars, fnVars>>

\* One call of load_analysis_from_cache
LoadCall ==
    /\ \E g \in CacheGameIds, m \in CacheModels, u \in CacheUsers :
         loaded' = [called |-> TRUE, game_id |-> g, model |-> m, username |-> u,
                    value |-> LoadAnalysisFromCache(disk, g, m, u),
                    last_written |-> written[GetCacheFilename(g, m, u)]]
    /\ UNCHANGED <<cacheVars, streamVars, paramVars, runVars, fnVars>>

CacheNext == SaveCall \/ LoadCall

SpecCache == CacheInit /\ [][CacheNext]_vars

-----------------------------------------------------------------------------
(* get_cache_filename, called with any strings *)

\* The characters of the identities: a letter, the separator of the file name,
\* and the two characters the model has replaced
KeyChars == {"a", "_", ":", "/"}

KeyTexts == SeqsUpTo(KeyChars, MaxKeyLen)

KeyInit ==
    /\ \E args \in [game_id : KeyTexts, model : KeyTexts, username : KeyTexts] :
         FnIdleWith(args)
    /\ FetchIdle
    /\ StreamIdle /\ CacheIdle /\ loaded = NotLoaded /\ BatchIdle

\* One call of get_cache_filename
GetCacheFilenameCall ==
    /\ key_file = <<>>
    /\ key_file' = GetCacheFilename(key_args.game_id, key_args.model,
                                      key_args.username)
    /\ UNCHANGED key_args
    /\ UNCHANGED <<streamVars, cacheVars, loaded, paramVars, runVars>>
    /\ UNCHANGED <<extracted, from_file, prompt, listing, remote, fetch>>

KeyNext == GetCacheFilenameCall

SpecKey == KeyInit /\ [][KeyNext]_vars

------------------------------------------------------------------------------
(* extract_game_info on one raw game, analyze_games_from_file on one file *)

\* Before the call of a function that is given all it works on
FnInit ==
    /\ FnIdle
    /\ StreamIdle /\ CacheIdle /\ loaded = NotLoaded /\ BatchIdle

\* One call of extract_game_info
ExtractGameInfoCall ==
    /\ ~extracted.called
    /\ \E game_data \in RawGames :
       \E r \in {ExtractGameInfo(game_data)} :
         extracted' = [called |-> TRUE, game_data |-> game_data,
                       raised |-> r.raised, value |-> r.value]
    /\ UNCHANGED from_file
    /\ UNCHANGED <<streamVars, cacheVars, loaded, paramVars, runVars, key_args,
                   key_file, prompt, listing, remote, fetch>>

\* One call of analyze_games_from_file
AnalyzeGamesFromFileCall ==
    /\ ~from_file.called
    /\ \E content \in GamesFiles :
         from_file' = [called |-> TRUE, content |-> content,
                       value |-> AnalyzeGamesFromFile(content)]
    /\ UNCHANGED extracted
    /\ UNCHANGED <<streamVars, cacheVars, loaded, paramVars, runVars, key_args,
                   key_file, prompt, listing, remote, fetch>>

SpecExtract == FnInit /\ [][ExtractGameInfoCall \/ AnalyzeGamesFromFileCall]_vars

------------------------------------------------------------------------------
(* format_game_for_analysis on one game *)

\* One call of format_game_for_analysis
FormatGameForAnalysisCall ==
    /\ ~prompt.called
    /\ \E game \in FormatGames, username \in PlayerNames :
       \E r \in {FormatGameForAnalysis(game, username)} :
         prompt' = [called |-> TRUE, game |-> game, username |-> username,
                    raised |-> r.raised, value |-> r.value]
    /\ UNCHANGED <<streamVars, cacheVars, loaded, paramVars, runVars, key_args,
                   key_file, extracted, from_file, listing, remote, fetch>>

SpecFormat == FnInit /\ [][FormatGameForAnalysisCall]_vars

------------------------------------------------------------------------------
(* list_cached_analyses on one directory *)

\* One call of list_cached_analyses
ListCachedAnalysesCall ==
    /\ ~listing.called
    /\ \/ listing' = [called |-> TRUE, dir |-> NoDir,
                       value |-> ListCachedAnalyses(NoDir)]
       \/ \E n \in 0..MaxFiles :
          \E ns \in FileNames(n), cs \in [1..n -> FileContents] :
          \E dir \in {DirOf([k \in 1..n |-> [filename |-> ns[k], content |-> cs[k]]])} :
            listing' = [called |-> TRUE, dir |-> dir,
                        value |-> ListCachedAnalyses(dir)]
    /\ UNCHANGED <<streamVars, cacheVars, loaded, paramVars, runVars, key_args,
                   key_file, extracted, from_file, prompt, remote, fetch>>

SpecList == FnInit /\ [][ListCachedAnalysesCall]_vars

------------------------------------------------------------------------------
(* fetch_all_games on one remote history *)

\* fetch_all_games is called with a batch size above the limit of the API, or
\* with one the histories of the model are longer than. The repository does not say whether the service takes 'until' as an
\* inclusive or an exclusive bound: either is a service the loop may face
FetchInit ==
    /\ \E n \in 0..MaxHistory :
         remote \in [history : Histories(n), inclusive : BOOLEAN]
    /\ \E batch_size \in {1, 2, ApiLimit + 1} : fetch = StartFetch(batch_size)
    /\ FnIdleWith(NoArgs)
    /\ StreamIdle /\ CacheIdle /\ loaded = NotLoaded /\ BatchIdle

\* The loop is recorded for its first MaxPages iterations: all_games and the
\* history of the requests stop growing there, and batch_num stops counting
Recorded(f) == f.batch_num <= MaxPages

\* The call of fetch_games at the head of the loop: the request is answered
\* or fails
FetchRequest ==
    /\ fetch.pc = "loop"
    /\ \E ok \in BOOLEAN :
         fetch' = [fetch EXCEPT
                      !.pc = "fetched",
                      !.batch_games = FetchGames(remote, fetch.batch_size,
                                                 fetch.last_timestamp, ok),
                      !.requests = IF Recorded(fetch)
                                   THEN Append(@, fetch.last_timestamp) ELSE @]
    /\ UNCHANGED remote
    /\ UNCHANGED <<streamVars, cacheVars, loaded, paramVars, runVars, key_args,
                   key_file, extracted, from_file, prompt, listing>>

\* The rest of the iteration: the batch is collected, and the loop ends or
\* goes on with the creation timestamp of the last game as the next bound
FetchCollect ==
    /\ fetch.pc = "fetched"
    /\ LET batch_games == fetch.batch_games
           kept == [fetch EXCEPT
                       !.all_games = IF Recorded(fetch)
                                     THEN @ \o batch_games ELSE @,
                       !.last_timestamp =
                           batch_games[Len(batch_games)].createdAt]
       IN  fetch' = IF batch_games = <<>>
                    THEN [fetch EXCEPT !.pc = "done"]
                    ELSE IF Len(batch_games) < fetch.batch_size
                         THEN [kept EXCEPT !.pc = "done"]
                         ELSE [kept EXCEPT
                                  !.pc = "loop",
                                  !.batch_num = IF Recorded(fetch)
                                                THEN @ + 1 ELSE @]
    /\ UNCHANGED remote
    /\ UNCHANGED <<streamVars, cacheVars, loaded, paramVars, runVars, key_args,
                   key_file, extracted, from_file, prompt, listing>>

\* fetch_all_games is one thread of straight-line code, and every request
\* returns, having a timeout: the next step is always taken
SpecFetch ==
    /\ FetchInit /\ [][FetchRequest \/ FetchCollect]_vars
    /\ WF_vars(FetchRequest) /\ WF_vars(FetchCollect)

-----------------------------------------------------------------------------
(* analyze_game_with_cache, called for one game after another *)

PlainInit ==
    /\ disk = EmptyDisk /\ now = 1 /\ written = NoWrites
    /\ loaded = NotLoaded
    /\ StreamIdle /\ BatchIdle /\ FnIdle

\* One call of analyze_game_with_cache (app.py line 60, game_analyzer.py line
\* 370); the entry of the history holds the directory before and after it
AnalyzeGameWithCacheCall ==
    /\ Len(log) < MaxCalls
    /\ \E game \in GameInfos, force \in BOOLEAN, env \in PlainEnvs, io \in SaveOutcomes :
       \E r \in {AnalyzeGameWithCache(disk, now, game, Username, Model, force, env, io)} :
         /\ disk' = r.disk
         /\ written' = IF r.save = "none" THEN written
                       ELSE WrittenAfter(written, game.game_id, Model, Username,
                                         r.analysis.text, game, now, r.save)
         /\ now' = IF r.save = "none" THEN now ELSE now + 1
         /\ log' = Append(log,
               [game_id |-> game.game_id, force |-> force,
                probed |-> r.probed, posted |-> r.posted, raised |-> r.raised,
                from_service |-> r.from_service, analysis |-> r.analysis,
                save |-> r.save, before |-> disk, after |-> r.disk])
    /\ UNCHANGED <<bpc, games, i, stats, ret, exit_code, run, sleeps>>
    /\ UNCHANGED <<streamVars, loaded, paramVars, fnVars>>

PlainNext == AnalyzeGameWithCacheCall

SpecPlain == PlainInit /\ [][PlainNext]_vars

-----------------------------------------------------------------------------
(* analyze_all_games and main *)

\* The cache directory earlier runs left: for each game of the file no entry
\* or an entry with the analysis "O"
BatchInit ==
    /\ file \in SeqsUpTo(BatchGames, MaxBatch)
    /\ force_refresh \in BOOLEAN
    /\ start_from \in StartFromValues
    /\ max_games \in MaxGamesValues
    /\ delay_between_games \in DelayValues
    /\ \E st \in [{file[k] : k \in 1..Len(file)} -> {"none", "old"}] :
         /\ disk = [f \in CacheFiles |->
                      IF \E g \in DOMAIN st : GetCacheFilename(g.game_id, Model, Username) = f
                      THEN LET g == CHOOSE g \in DOMAIN st :
                                       GetCacheFilename(g.game_id, Model, Username) = f
                           IN OldContent(g, st[g])
                      ELSE Missing]
         /\ written = [f \in CacheFiles |->
                      IF \E g \in DOMAIN st :
                            /\ GetCacheFilename(g.game_id, Model, Username) = f
                            /\ st[g] = "old"
                      THEN LET g == CHOOSE g \in DOMAIN st :
                                       GetCacheFilename(g.game_id, Model, Username) = f
                           IN CacheData(g.game_id, Model, Username, <<"O">>, 0, g)
                      ELSE NoData]
    /\ now = 1
    /\ loaded = NotLoaded
    /\ bpc = "start" /\ games = <<>> /\ i = 0 /\ stats = NewStats(0)
    /\ ret = "none" /\ exit_code = -1 /\ run = 1 /\ log = <<>> /\ sleeps = 0
    /\ StreamIdle /\ FnIdle

\* Lines 156 and 178: the dicts {"error": ...} analyze_all_games returns early
NoGamesFound == "error: No games found"

ConnectionFailed == "error: Ollama connection failed"

\* A main that always exits with status 0
ExitStatus_Zero(r) == 0

\* main, lines 290-295: status 1 when "error" is a key of what was returned
ExitStatus(r) == IF r \in {NoGamesFound, ConnectionFailed} THEN 1 ELSE 0

\* Lines 149-195, and main's exit when analyze_all_games returns an error
Start ==
    /\ bpc = "start"
    /\ IF file = <<>>
       THEN /\ bpc' = "failed" /\ ret' = NoGamesFound
            /\ exit_code' = ExitStatus(NoGamesFound)
            /\ UNCHANGED <<games, i, stats>>
       ELSE \E reachable \in BOOLEAN :
              LET selected == Truncate(ResumeSlice(file, start_from), max_games) IN
              IF ~reachable
              THEN /\ bpc' = "failed" /\ ret' = ConnectionFailed
                   /\ exit_code' = ExitStatus(ConnectionFailed)
                   /\ games' = selected
                   /\ UNCHANGED <<i, stats>>
              ELSE /\ bpc' = "loop" /\ games' = selected /\ i' = 1
                   /\ stats' = NewStats(Len(selected))
                   /\ UNCHANGED <<ret, exit_code>>
    /\ UNCHANGED <<run, log, sleeps>>
    /\ UNCHANGED <<streamVars, cacheVars, loaded, paramVars, fnVars>>

\* A loop that sleeps after the last record too
AfterRecord_AlwaysSleeps(remaining, delay) ==
    IF delay > 0 THEN "sleep"
    ELSE IF remaining > 0 THEN "loop" ELSE "final"

\* Lines 236-244: what follows a record: the delay, the next record, or the
\* end of the loop
AfterRecord(remaining, delay) ==
    IF remaining > 0
    THEN IF delay > 0 THEN "sleep" ELSE "loop"
    ELSE "final"

\* How the write of a record's analysis may end: it is attempted only after
\* an inference that returned text
SaveChoices(d, game, force, env) ==
    IF (~force /\ LoadAnalysisFromCache(d, game.game_id, Model, Username).found)
       \/ ~Truthy(AnalyzeGameStreaming(game, env).value)
    THEN {"ok"}
    ELSE SaveOutcomes

\* Lines 197-239: one iteration of the loop up to the delay
ProcessRecord ==
    /\ bpc = "loop"
    /\ i <= Len(games)
    /\ \E env \in BatchEnvs :
       \E io \in SaveChoices(disk, games[i], force_refresh, env) :
       \E is_cached \in {~force_refresh
                         /\ LoadAnalysisFromCache(disk, games[i].game_id,
                                                  Model, Username).found} :
       \E r \in {AnalyzeGameWithStreamingCache(disk, now, games[i], Username, Model,
                                               force_refresh, env, io)} :
       \E st \in {UpdateStats(stats, games[i], is_cached, r)} :
         /\ disk' = r.disk
         /\ written' = IF r.save = "none" THEN written
                       ELSE WrittenAfter(written, games[i].game_id, Model, Username,
                                         r.analysis.text, games[i], now, r.save)
         /\ now' = IF r.save = "none" THEN now ELSE now + 1
         /\ stats' = st
         /\ log' = Append(log,
               [run |-> run, index |-> i, game_id |-> games[i].game_id,
                entry |-> disk[GetCacheFilename(games[i].game_id, Model, Username)].state,
                is_cached |-> is_cached, probed |-> r.probed, posted |-> r.posted,
                raised |-> r.raised, analysis |-> r.analysis, save |-> r.save,
                successes |-> st.successful_analyses - stats.successful_analyses,
                failures |-> st.failed_analyses - stats.failed_analyses,
                cache_hits |-> st.cached_analyses - stats.cached_analyses])
    /\ bpc' = AfterRecord(Len(games) - i, delay_between_games)
    /\ i' = IF bpc' = "loop" THEN i + 1 ELSE i
    /\ UNCHANGED <<games, ret, exit_code, run, sleeps>>
    /\ UNCHANGED <<streamVars, loaded, paramVars, fnVars>>

\* Lines 241-244: the delay before the next game
Sleep ==
    /\ bpc = "sleep"
    /\ sleeps' = sleeps + 1
    /\ i' = i + 1
    /\ bpc' = "loop"
    /\ UNCHANGED <<games, stats, ret, exit_code, run, log>>
    /\ UNCHANGED <<streamVars, cacheVars, loaded, paramVars, fnVars>>

\* An average taken whatever the number of successes
AverageDuration_Unguarded(st) ==
    IF st.successful_analyses = 0 THEN "ZeroDivisionError" ELSE "computed"

\* Lines 260-262: the average time per analysis is computed only when there
\* was a success
AverageDuration(st) ==
    IF st.successful_analyses > 0 THEN "computed" ELSE "skipped"

\* Lines 246-264, and main's exit with status 0; an exception would leave
\* through main with a traceback and status 1
Finish ==
    /\ bpc = "final"
    /\ IF AverageDuration(stats) = "ZeroDivisionError"
       THEN bpc' = "crashed" /\ ret' = "none" /\ exit_code' = 1
       ELSE bpc' = "done" /\ ret' = "stats" /\ exit_code' = ExitStatus("stats")
    /\ UNCHANGED <<games, i, stats, run, log, sleeps>>
    /\ UNCHANGED <<streamVars, cacheVars, loaded, paramVars, fnVars>>

Next == Start \/ ProcessRecord \/ Sleep \/ Finish

Spec == BatchInit /\ [][Next]_vars

\* analyze_all_games is one thread of straight-line code: after the checks
\* before the loop each step is taken once the one before it has returned.
\* Every call of the service returns, the requests having timeouts and the
\* response bodies being finite.
FairInit == BatchInit /\ Len(file) <= MaxTwice

FairSpec ==
    /\ FairInit /\ [][Next]_vars
    /\ WF_vars(ProcessRecord) /\ WF_vars(Sleep) /\ WF_vars(Finish)

\* The command is run a second time on the same file with the same arguments;
\* the cache directory is what the first run left
Rerun ==
    /\ bpc \in {"done", "failed"}
    /\ run = 1
    /\ run' = run + 1
    /\ bpc' = "start" /\ games' = <<>> /\ i' = 0 /\ stats' = NewStats(0)
    /\ ret' = "none" /\ exit_code' = -1 /\ sleeps' = 0
    /\ UNCHANGED log
    /\ UNCHANGED <<streamVars, cacheVars, loaded, paramVars, fnVars>>

TwiceInit ==
    /\ BatchInit
    /\ Len(file) <= MaxTwice
    /\ start_from = <<>> /\ max_games = NoneInt

TwiceNext == Next \/ Rerun

SpecTwice == TwiceInit /\ [][TwiceNext]_vars

-----------------------------------------------------------------------------
(* Properties of analyze_game_streaming, checked under SpecStream *)

\* The place of the first chunk whose completion flag is true, 0 when none
FirstDone(s) ==
    IF \E k \in 1..Len(s) : s[k].kind = "obj" /\ s[k].done
    THEN CHOOSE k \in 1..Len(s) :
            /\ s[k].kind = "obj" /\ s[k].done
            /\ \A j \in 1..(k - 1) : ~(s[j].kind = "obj" /\ s[j].done)
    ELSE 0

\* The text fragments of the chunks among the first n lines, in arrival order
RECURSIVE FragsUpTo(_, _)
FragsUpTo(s, n) ==
    IF n = 0 THEN <<>>
    ELSE FragsUpTo(s, n - 1)
         \o (IF s[n].kind = "obj" /\ s[n].has THEN s[n].resp ELSE <<>>)

\* The text of the well-formed chunks up to the completion flag or the end
WellFormedText(s) == FragsUpTo(s, IF FirstDone(s) > 0 THEN FirstDone(s) ELSE Len(s))

IsNotBlankLine(l) == l.kind # "blank"

NonBlank(s) == SelectSeq(s, IsNotBlankLine)

NoNonObjBefore(s, k) == \A j \in 1..k : s[j].kind # "nonobj"

\* The call returned after the request went through and no read failed
Delivered == spc = "returned" /\ stop \in {"flag", "eof", "error"}

\* None for a blank text, the text otherwise
Expect(t) == IF IsBlank(t) THEN NoneT ELSE Some(t)

\* C5: when the body holds a chunk whose completion flag is true (and every line
\* before it is a chunk or a line the parser skips), the parser stops on the
\* first such chunk: it has consumed exactly the lines up to and including it,
\* the buffer is the concatenation in arrival order of the fragments of the
\* chunks up to and including it, nothing after it contributes, and the buffer
\* is the result (none when it is blank, line 89).
C5_CompletionFlag ==
    LET k == FirstDone(stream) IN
    (Delivered /\ k > 0 /\ NoNonObjBefore(stream, k)) =>
        /\ stop = "flag"
        /\ pos = k
        /\ full_analysis = FragsUpTo(stream, k)
        /\ result = Expect(FragsUpTo(stream, k))

C5_Witness ==
    /\ spc = "returned" /\ stop = "flag"
    /\ pos = 2 /\ Len(stream) = 3
    /\ stream[3].kind = "obj" /\ stream[3].has /\ stream[3].resp = <<"A">>
    /\ result = Some(<<"A", "B">>)

\* C6: every line that is no JSON chunk object is skipped and is not fatal: the
\* fragments of the well-formed chunks before and after it, up to the
\* completion flag or the end of the body, are accumulated and returned.
C6_MalformedSkipped ==
    Delivered => result = Expect(WellFormedText(stream))

\* C7: when the body ends without a chunk whose completion flag is true (no
\* read fails, and every line is a chunk or a line the parser skips), the loop
\* runs to the end of the body and the buffer is returned when it is not
\* blank; blank lines change nothing: the buffer is what the body without its
\* blank lines gives.
C7_EndWithoutFlag ==
    (Delivered /\ FirstDone(stream) = 0 /\ NoNonObjBefore(stream, Len(stream))) =>
        LET t == FragsUpTo(NonBlank(stream), Len(NonBlank(stream))) IN
        /\ stop = "eof"
        /\ pos = Len(stream)
        /\ full_analysis = t
        /\ (~IsBlank(t) => result = Some(t))

C7_Witness ==
    /\ spc = "returned" /\ stop = "eof"
    /\ Len(stream) = 3 /\ stream[2].kind = "blank"
    /\ result = Some(<<"A", "B">>)

\* C8 as stated: a timeout while the body is read, after a non-blank text was
\* accumulated and before a completion flag, returns the accumulated text.
C8_TimeoutKeepsPartial ==
    (spc = "returned" /\ stop = "timeout" /\ ~IsBlank(full_analysis)) =>
        result = Some(full_analysis)

\* C8 amended: a timeout while the body is read returns none, whatever was
\* accumulated: the partial text is dropped.
C8_TimeoutReturnsNone ==
    (spc = "returned" /\ stop = "timeout") => result = NoneT

C8_Witness ==
    /\ spc = "returned" /\ stop = "timeout"
    /\ pos = 2 /\ full_analysis = <<"A", "B">>
    /\ result = NoneT

\* C9: the call returns none exactly when the request failed (the probe, the
\* POST or a read) or the accumulated text is empty or whitespace only;
\* otherwise it returns the accumulated text unchanged.
C9_NoneExactly ==
    spc = "returned" =>
        /\ (result = NoneT) <=>
              (stop \in {"probe", "post", "timeout"} \/ IsBlank(full_analysis))
        /\ (result # NoneT => result = Some(full_analysis))

-----------------------------------------------------------------------------
(* Properties of the cache, checked under SpecCache *)

LastSlash(p) ==
    IF \E k \in 1..Len(p) : p[k] = "/"
    THEN CHOOSE k \in 1..Len(p) :
            p[k] = "/" /\ \A j \in (k + 1)..Len(p) : p[j] # "/"
    ELSE 0

\* The directory a path names a file of
DirName(p) == SubSeq(p, 1, LastSlash(p) - 1)

\* C12: for every game, model and player identity the entry file lies directly
\* inside the cache directory: no component brings a path separator into the
\* file name (checked under SpecKey)
C12_KeySanitized ==
    key_file # <<>> => DirName(key_file) = CacheDir

\* C11: after any sequence of writes, the entry a read of the triple T returns
\* was written for a triple with T's game identity and T's player identity,
\* and a model identity equal to T's after ':' and '/' are replaced by '_'
C11_KeyIdentity ==
    (loaded.called /\ loaded.value.found) =>
        /\ loaded.value.data.game_id = loaded.game_id
        /\ loaded.value.data.username = loaded.username
        /\ SafeModel(loaded.value.data.model) = SafeModel(loaded.model)

-----------------------------------------------------------------------------
(* Properties of the batch, checked under Spec and SpecTwice *)

Succeeded(e) == ~e.raised /\ Truthy(e.analysis)

\* Inference was tried for the record and gave no text
InferenceFailed(e) == ~e.raised /\ ~Truthy(e.analysis)

\* The first processing left an entry the cache can read
LeftReadableEntry(e) == Succeeded(e) /\ (e.is_cached \/ e.save = "ok")

CacheHit(e) ==
    /\ ~e.posted /\ e.is_cached /\ Succeeded(e)
    /\ e.successes = 1 /\ e.cache_hits = 1 /\ e.failures = 0

\* C1 as stated: of two processings of a game with force-refresh off the
\* second makes no generate call, returns the stored text and is a cache hit,
\* whatever the first did
C1_Idempotent ==
    ~force_refresh =>
        \A j, k \in 1..Len(log) :
            (j < k /\ log[j].game_id = log[k].game_id) => CacheHit(log[k])

\* C1, amended: when the first of two processings of a game with force-refresh
\* off left a readable entry (it was a cache hit, or inference gave text and
\* the write succeeded), the second makes no generate call, returns the same
\* text and is counted as a cache hit
C1_IdempotentWhenStored ==
    ~force_refresh =>
        \A j, k \in 1..Len(log) :
            (j < k /\ log[j].game_id = log[k].game_id /\ LeftReadableEntry(log[j]))
                => /\ CacheHit(log[k])
                   /\ log[k].analysis = log[j].analysis

\* The second run found what the first run's inference wrote
C1_Witness ==
    /\ ~force_refresh
    /\ \E j, k \in 1..Len(log) :
         /\ log[j].run = 1 /\ log[k].run = 2
         /\ log[j].game_id = log[k].game_id
         /\ log[j].posted /\ log[j].save = "ok"
         /\ log[k].is_cached /\ log[k].analysis = Some(<<"A", "B">>)

\* C13: without force-refresh a record whose entry is missing or unreadable
\* is a cache miss: the read does not raise, inference is invoked, the record
\* is not a cache hit, and it succeeds or fails as the inference does
C13_UnreadableIsMiss ==
    ~force_refresh =>
        \A k \in 1..Len(log) :
            log[k].entry \in {"missing", "corrupt"} =>
                /\ ~log[k].is_cached /\ log[k].cache_hits = 0
                /\ log[k].probed
                /\ Truthy(log[k].analysis) =>
                      (~log[k].raised /\ log[k].successes = 1 /\ log[k].failures = 0)
                /\ ~Truthy(log[k].analysis) =>
                      (log[k].successes = 0 /\ log[k].failures = 1)

\* A record whose entry a failed write had left unreadable was analysed again
C13_Witness ==
    /\ ~force_refresh
    /\ \E k \in 1..Len(log) :
         /\ log[k].entry = "corrupt"
         /\ log[k].posted /\ Succeeded(log[k]) /\ log[k].successes = 1
         /\ ~log[k].is_cached

\* C14: when inference returned text and the write of the entry fails, no
\* exception escapes, the text is the result all the same and the record is
\* counted as a success, not as a failure
C14_WriteFailureSwallowed ==
    \A k \in 1..Len(log) :
        log[k].save \in {"open_fails", "dump_fails"} =>
            /\ ~log[k].raised
            /\ log[k].posted /\ log[k].analysis = Some(<<"A", "B">>)
            /\ log[k].successes = 1 /\ log[k].failures = 0

\* Both kinds of failed write happened in one run
C14_Witness ==
    /\ bpc = "done"
    /\ \E j, k \in 1..Len(log) :
         /\ log[j].save = "open_fails" /\ log[k].save = "dump_fails"
         /\ stats.successful_analyses >= 2

\* C15: with force-refresh the cache is not consulted: inference is invoked
\* for every processed record, also when a valid entry exists; no record is a
\* cache hit; and a result that is written replaces the entry as a whole: a
\* read after it returns the new text, timestamp and metadata and nothing of
\* the old entry
C15_ForceRefresh ==
    force_refresh =>
        /\ stats.cached_analyses = 0
        /\ \A k \in 1..Len(log) :
              /\ log[k].probed
              /\ ~log[k].is_cached /\ log[k].cache_hits = 0
              /\ Succeeded(log[k]) => log[k].posted /\ log[k].save # "none"
        /\ (Len(log) > 0 /\ log[Len(log)].save = "ok") =>
              LET e == log[Len(log)] IN
              LoadAnalysisFromCache(disk, e.game_id, Model, Username)
                  = Found(CacheData(e.game_id, Model, Username, e.analysis.text,
                                    now - 1, games[e.index]))

\* A valid entry of an earlier run was replaced
C15_Witness ==
    /\ force_refresh /\ Len(log) > 0
    /\ LET e == log[Len(log)] IN
         /\ e.entry = "json" /\ e.save = "ok" /\ e.posted
         /\ LoadAnalysisFromCache(disk, e.game_id, Model, Username).data.analysis
               = <<"A", "B">>

\* C16: a record whose entry is present and parseable, with force-refresh
\* off, causes no call of the inference service and is counted as successful
\* and as cached; and no record counted as cached caused such a call
C16_CacheHitOutcome ==
    /\ \A k \in 1..Len(log) :
          /\ (~force_refresh /\ log[k].entry = "json") =>
                /\ ~log[k].probed /\ ~log[k].posted
                /\ log[k].successes = 1 /\ log[k].cache_hits = 1
                /\ log[k].failures = 0
          /\ log[k].cache_hits = 1 =>
                (~log[k].probed /\ ~log[k].posted /\ log[k].successes = 1)
    /\ stats.cached_analyses
          = Cardinality({k \in 1..Len(log) : ~force_refresh /\ log[k].entry = "json"})

\* The entry an inference of the same run wrote was a hit for a later record
C16_Witness ==
    /\ ~force_refresh
    /\ \E j, k \in 1..Len(log) :
         /\ j < k /\ log[j].game_id = log[k].game_id
         /\ log[j].entry = "missing" /\ log[j].save = "ok"
         /\ log[k].entry = "json" /\ log[k].cache_hits = 1 /\ ~log[k].posted

\* C17: an entry is created or changed only by a successful inference for its
\* key, one that returned analysis text from the inference service; a cache
\* hit, a failed or empty inference or an exception leaves every entry as it
\* is; no entry is ever deleted; and without force-refresh a readable entry is
\* never replaced (checked under SpecPlain, on the directory before and after
\* each call)
C17_Lifecycle ==
    \A k \in 1..Len(log) : \A f \in CacheFiles :
        LET e == log[k] IN
        /\ e.after[f] # e.before[f] =>
              /\ f = GetCacheFilename(e.game_id, Model, Username)
              /\ e.posted /\ ~e.raised /\ Truthy(e.analysis)
              /\ e.from_service
        /\ e.before[f].state # "missing" => e.after[f].state # "missing"
        /\ (~e.force /\ e.before[f].state = "json") => e.after[f] = e.before[f]

\* C2: a finished run in which inference failed for exactly one record and
\* every other record succeeded has processed all N selected records and
\* reports total N, 1 failure and N-1 successes
C2_PartialFailure ==
    (/\ bpc = "done"
     /\ \E k \in 1..Len(log) :
          /\ InferenceFailed(log[k])
          /\ \A j \in 1..Len(log) : j # k => Succeeded(log[j]))
        => /\ Len(log) = Len(games)
           /\ \A k \in 1..Len(log) : log[k].index = k
           /\ stats.total_games = Len(games)
           /\ stats.failed_analyses = 1
           /\ stats.successful_analyses = Len(games) - 1

\* The middle record of three failed
C2_Witness ==
    /\ bpc = "done" /\ Len(games) = 3 /\ Len(log) = 3
    /\ Succeeded(log[1]) /\ InferenceFailed(log[2]) /\ Succeeded(log[3])

\* C3: a record whose processing raises adds exactly one failure and nothing
\* else, the loop goes on to the next record, and a run that reached the loop
\* ends having processed every selected record
C3_ExceptionIsolation ==
    /\ \A k \in 1..Len(log) :
         log[k].raised =>
            /\ log[k].failures = 1 /\ log[k].successes = 0 /\ log[k].cache_hits = 0
            /\ IF k < Len(log)
               THEN log[k + 1].index = log[k].index + 1
               ELSE IF log[k].index < Len(games)
                    THEN bpc \in {"sleep", "loop"}
                    ELSE bpc \in {"final", "done"}
    /\ bpc = "done" =>
         /\ Len(log) = Len(games)
         /\ stats.failed_analyses
               = Cardinality({k \in 1..Len(log) : ~Succeeded(log[k])})

\* The first record raised and the records after it were processed
C3_Witness ==
    /\ bpc = "done" /\ Len(log) = 3
    /\ log[1].raised /\ Succeeded(log[2]) /\ log[3].raised
    /\ stats.failed_analyses = 2

\* The place of the first game of the file with the resume identity
FirstMatch ==
    CHOOSE m \in 1..Len(file) :
        /\ file[m].game_id = start_from
        /\ \A j \in 1..(m - 1) : file[j].game_id # start_from

ResumeMatches == start_from # <<>> /\ \E m \in 1..Len(file) : file[m].game_id = start_from

\* C4: with a resume identity that a record of the input has, the records
\* processed are those from the first such record on, in input order, none
\* before it; with no --max-games cap a finished run has processed exactly
\* those through the last record
C4_Resume ==
    ResumeMatches =>
        /\ \A k \in 1..Len(log) :
              /\ FirstMatch + k - 1 <= Len(file)
              /\ log[k].index = k
              /\ log[k].game_id = file[FirstMatch + k - 1].game_id
        /\ (bpc = "done" /\ max_games = NoneInt) =>
              Len(log) = Len(file) - FirstMatch + 1

\* A run resumed at the second of three records and processed the last two
C4_Witness ==
    /\ bpc = "done" /\ max_games = NoneInt
    /\ Len(file) = 3 /\ ResumeMatches /\ FirstMatch = 2
    /\ Len(log) = 2

\* The place in the file of the first record of the resume slice
SliceStart == IF ResumeMatches THEN FirstMatch ELSE 1

\* The records processed are the first ones of the resume slice, in order
ProcessedFromSlice ==
    \A k \in 1..Len(log) :
        /\ SliceStart + k - 1 <= Len(file)
        /\ log[k].index = k
        /\ log[k].game_id = file[SliceStart + k - 1].game_id

C19_ExitStatus ==
    /\ exit_code \in {-1, 0, 1}
    /\ exit_code = 1 <=> bpc = "failed"
    /\ exit_code = 0 <=> bpc = "done"
    /\ bpc = "failed" =>
          /\ ret \in {NoGamesFound, ConnectionFailed}
          /\ ret = NoGamesFound <=> file = <<>>
          /\ log = <<>> /\ now = 1
          /\ \A f \in CacheFiles : disk[f].state = "json" => written[f].timestamp = IsoFormat(0)
    /\ file = <<>> => bpc \in {"start", "failed"}
    /\ bpc \in {"loop", "sleep", "final", "done"} => ret \in {"none", "stats"}

\* A run in which every record failed ended with status 0
C19_Witness ==
    /\ bpc = "done" /\ exit_code = 0
    /\ Len(games) >= 2 /\ Len(log) = Len(games)
    /\ stats.successful_analyses = 0 /\ stats.failed_analyses = Len(games)

\* Each selected record is processed once, in input order, one after the
\* other: the history is the selected list up to the loop counter
Sequential ==
    /\ Len(log) <= Len(games)
    /\ \A k \in 1..Len(log) :
          log[k].index = k /\ log[k].game_id = games[k].game_id
    /\ bpc = "loop" => Len(log) = i - 1
    /\ bpc \in {"sleep", "final", "done"} => Len(log) = i
    /\ bpc \in {"final", "done"} =>
          /\ Len(log) = Len(games)
          /\ stats.total_games = Len(games)
          /\ stats.successful_analyses + stats.failed_analyses = Len(games)
    /\ bpc # "crashed"

\* C20: once the checks before the loop have passed, the selected records are
\* processed once each, in input order, one call of the inference service at a
\* time, and the run ends by returning the statistics whatever the outcomes of
\* the records were, a run without a success included (checked under FairSpec)
C20_SequentialCompletion ==
    /\ []Sequential
    /\ (bpc = "loop") ~> (bpc = "done" /\ ret = "stats" /\ Len(log) = Len(games))

\* A run without a success has returned its statistics
C20_Witness ==
    /\ bpc = "done" /\ ret = "stats"
    /\ Len(games) = 2 /\ Len(log) = 2 /\ sleeps = 1
    /\ stats.successful_analyses = 0

\* C21: with a delay greater than 0 the run sleeps once after every record but
\* the last, whatever the record's outcome, and not after the last: before
\* record k is looked up in the cache k-1 sleeps have happened, and a run of N
\* records ends after N-1 sleeps
C21_InterRecordDelay ==
    delay_between_games > 0 =>
        /\ bpc = "loop" => sleeps = Len(log)
        /\ bpc = "sleep" => (sleeps = Len(log) - 1 /\ Len(log) < Len(games))
        /\ bpc \in {"final", "done"} =>
              (sleeps = Len(log) - 1 /\ Len(log) = Len(games))

\* Two sleeps in a run of three records, after an exception and after a cache hit
C21_Witness ==
    /\ bpc = "done" /\ delay_between_games > 0
    /\ Len(log) = 3 /\ sleeps = 2
    /\ log[1].raised /\ log[2].cache_hits = 1 /\ InferenceFailed(log[3])

\* A resume identity is given and no record of the input has it
UnknownResume ==
    start_from # <<>> /\ \A m \in 1..Len(file) : file[m].game_id # start_from

\* The number of records of a slice of n records that the cap lets through
Capped(n) ==
    IF max_games.some /\ max_games.n > 0 /\ max_games.n < n THEN max_games.n ELSE n

\* Several records of the input have the resume identity
SharedResume ==
    /\ start_from # <<>>
    /\ \E m, n \in 1..Len(file) :
          m # n /\ file[m].game_id = start_from /\ file[n].game_id = start_from

\* C29: with a resume identity that no record of the input has, nothing is
\* skipped and no error is returned for it (a run over a file that has games
\* fails only on the unreachable service): the batch is the input from its
\* first record on, up to the maximum count, and a finished run has processed
\* all of it; with several records of the resume identity the batch starts at
\* the first of them
C29_UnknownResume ==
    /\ (UnknownResume /\ bpc \in {"loop", "sleep", "final", "done"}) =>
          /\ stats.total_games = Capped(Len(file))
          /\ \A k \in 1..Len(log) :
                log[k].index = k /\ log[k].game_id = file[k].game_id
          /\ bpc = "done" => (ret = "stats" /\ Len(log) = Capped(Len(file)))
    /\ (UnknownResume /\ file # <<>> /\ bpc = "failed") => ret = ConnectionFailed
    /\ (SharedResume /\ bpc \in {"loop", "sleep", "final", "done"}) =>
          /\ stats.total_games = Capped(Len(file) - FirstMatch + 1)
          /\ \A k \in 1..Len(log) :
                log[k].game_id = file[FirstMatch + k - 1].game_id

\* A finished run over all three records of the input, resumed at an identity
\* none of them has
C29_Witness ==
    /\ UnknownResume /\ bpc = "done" /\ max_games = NoneInt
    /\ Len(file) = 3 /\ Len(log) = 3

\* The number of records of the run that were counted as successes
Successes == Cardinality({k \in 1..Len(log) : log[k].successes = 1})

\* C30: after every record successful_analyses + failed_analyses is the number
\* of records processed so far, total_games at the end; cached_analyses is at
\* most successful_analyses; there are as many summaries as successes; no
\* counter decreases, and every record adds exactly 1 to exactly one of
\* successful_analyses and failed_analyses
C30_Statistics ==
    bpc \in {"loop", "sleep", "final", "done"} =>
        /\ stats.successful_analyses + stats.failed_analyses = Len(log)
        /\ bpc \in {"final", "done"} =>
              stats.successful_analyses + stats.failed_analyses = stats.total_games
        /\ stats.cached_analyses <= stats.successful_analyses
        /\ Len(stats.analyzed_games) = stats.successful_analyses
        /\ stats.successful_analyses = Successes
        /\ \A k \in 1..Len(log) :
              /\ log[k].successes \in {0, 1}
              /\ log[k].failures \in {0, 1}
              /\ log[k].successes + log[k].failures = 1
              /\ log[k].cache_hits \in {0, 1}
              /\ log[k].cache_hits <= log[k].successes

\* A finished run of three records: a cache hit, a new analysis and a failure
C30_Witness ==
    /\ bpc = "done" /\ Len(log) = 3
    /\ stats.successful_analyses = 2 /\ stats.cached_analyses = 1
    /\ stats.failed_analyses = 1 /\ Len(stats.analyzed_games) = 2

------------------------------------------------------------------------------
(* Properties of extract_game_info and analyze_games_from_file *)

\* The dict has the key, with a value of the kind
HasKind(d, key, kind) == key \in DOMAIN d.f /\ d.f[key].k = kind

\* A side of a raw game with a user of a name and with a rating
WellFormedSide(d) ==
    /\ HasKind(d, "user", "dict") /\ HasKind(d.f["user"], "name", "str")
    /\ HasKind(d, "rating", "int")

\* A raw game with every field the extraction reads, each of its type
WellFormedGame(g) ==
    /\ g.k = "dict"
    /\ HasKind(g, "id", "str") /\ HasKind(g, "status", "str")
    /\ HasKind(g, "moves", "str") /\ HasKind(g, "createdAt", "int")
    /\ HasKind(g, "players", "dict")
    /\ HasKind(g.f["players"], "white", "dict")
    /\ WellFormedSide(g.f["players"].f["white"])
    /\ HasKind(g.f["players"], "black", "dict")
    /\ WellFormedSide(g.f["players"].f["black"])
    /\ HasKind(g, "opening", "dict")
    /\ HasKind(g.f["opening"], "name", "str")
    /\ HasKind(g.f["opening"], "eco", "str")
    /\ HasKind(g, "clock", "dict")
    /\ HasKind(g.f["clock"], "initial", "int")
    /\ HasKind(g.f["clock"], "increment", "int")

\* C22: extraction never raises, and a field or sub-field that is missing,
\* null or of the wrong type comes out as its default: the names and the
\* opening as text, the ratings as numbers
C22_ExtractionTotal ==
    extracted.called =>
        /\ ~extracted.raised
        /\ extracted.value.white_player.k = "str"
        /\ extracted.value.black_player.k = "str"
        /\ extracted.value.white_rating.k = "int"
        /\ extracted.value.black_rating.k = "int"
        /\ extracted.value.opening_name.k = "str"
        /\ extracted.value.game_id.k = "str"

\* C23: loading a file that holds a list of raw games of which one is
\* malformed gives one GameInfo for every raw game, in the order of the file
C23_MalformedKept ==
    (/\ from_file.called /\ from_file.content.state = "list"
     /\ Cardinality({k \in 1..Len(from_file.content.data) :
                        ~WellFormedGame(from_file.content.data[k])}) = 1) =>
        /\ Len(from_file.value) = Len(from_file.content.data)
        /\ \A k \in 1..Len(from_file.value) :
              from_file.value[k].game_id = PyGet(from_file.content.data[k], "id",
                                                  PyStr(Unknown))

\* The text without its whitespace
Squeeze(t) == SelectSeq(t, LAMBDA c : c # " ")

RECURSIVE Concat(_)
\* The words one after the other
Concat(ws) == IF ws = <<>> THEN <<>> ELSE Head(ws) \o Concat(Tail(ws))

\* The number of places of the text where a word starts
WordStarts(t) ==
    Cardinality({k \in 1..Len(t) : t[k] # " " /\ (k = 1 \/ t[k - 1] = " ")})

\* The raw game, a dict, has no moves or an empty moves string
MovesMissingOrEmpty(g) ==
    "moves" \notin DOMAIN g.f \/ g.f["moves"] = PyStr(<<>>)

\* C24: every GameInfo built has total_moves equal to the length of moves, and
\* moves is the whitespace-split of the raw moves string: the words of the
\* string, none empty, none with whitespace in it, as many as the string has
\* and in its order; a raw game without moves, or with an empty moves string,
\* gives no moves and total_moves 0
C24_MoveCount ==
    (extracted.called /\ ~extracted.raised) =>
        /\ extracted.value.total_moves = Len(extracted.value.moves)
        /\ HasKind(extracted.game_data, "moves", "str") =>
              LET t == extracted.game_data.f["moves"].s
                  ms == extracted.value.moves
              IN  /\ \A k \in 1..Len(ms) : ms[k] # <<>> /\ Squeeze(ms[k]) = ms[k]
                  /\ Concat(ms) = Squeeze(t)
                  /\ Len(ms) = WordStarts(t)
        /\ MovesMissingOrEmpty(extracted.game_data) =>
              (extracted.value.moves = <<>> /\ extracted.value.total_moves = 0)

\* Two moves out of a string with whitespace around them
C24_Witness ==
    /\ extracted.called /\ ~extracted.raised
    /\ HasKind(extracted.game_data, "moves", "str")
    /\ Len(extracted.game_data.f["moves"].s) = 3
    /\ extracted.value.moves = <<<<"e">>, <<"d">>>>
    /\ extracted.value.total_moves = 2

------------------------------------------------------------------------------
(* Properties of format_game_for_analysis *)

\* Two characters that are the same letter, and two texts that are equal when
\* case is ignored
SameLetter(c, d) == c = d \/ {c, d} \in {{"a", "A"}, {"b", "B"}}

SameIgnoringCase(s, t) ==
    Len(s) = Len(t) /\ \A k \in 1..Len(s) : SameLetter(s[k], t[k])

\* The call returned a prompt
Formatted == prompt.called /\ ~prompt.raised

MatchesWhite == SameIgnoringCase(prompt.game.white_player.s, prompt.username)

MatchesBlack == SameIgnoringCase(prompt.game.black_player.s, prompt.username)

\* The prompt takes the player for White, or for Black, and the opponent and
\* the two ratings from the sides accordingly
AsWhite ==
    /\ prompt.value.user_color = "White"
    /\ prompt.value.user_rating = prompt.game.white_rating
    /\ prompt.value.opponent = prompt.game.black_player
    /\ prompt.value.opponent_rating = prompt.game.black_rating

AsBlack ==
    /\ prompt.value.user_color = "Black"
    /\ prompt.value.user_rating = prompt.game.black_rating
    /\ prompt.value.opponent = prompt.game.white_player
    /\ prompt.value.opponent_rating = prompt.game.white_rating

\* C25 as stated: a player whose identity is that of neither side is treated
\* as White
C25_DefaultWhite ==
    (Formatted /\ ~MatchesWhite /\ ~MatchesBlack) => AsWhite

\* C25, amended: a player whose identity is that of neither side, case
\* ignored, is treated as Black: the prompt reports colour Black, the Black
\* rating as the player's and the white player as the opponent
C25_DefaultBlack ==
    (Formatted /\ ~MatchesWhite /\ ~MatchesBlack) => AsBlack

\* A prompt for a player who is on neither side of the game
C25_Witness ==
    /\ Formatted /\ ~MatchesWhite /\ ~MatchesBlack
    /\ prompt.value.user_color = "Black"
    /\ prompt.value.opponent = prompt.game.white_player

\* The winner of the game is the side of the colour
WinnerIs(color) ==
    \/ (color = "White" /\ prompt.game.winner = PyStr(<<"white">>))
    \/ (color = "Black" /\ prompt.game.winner = PyStr(<<"black">>))

\* C26: the player is White when the identity is the white player's, case
\* ignored, also when it is the black player's as well, and Black when it is
\* only the black player's, with the opponent and the ratings of the sides
\* accordingly; the result is Draw exactly when the game has no winner, Win
\* exactly when the winner is the player's colour, Loss otherwise
C26_ColourAndResult ==
    Formatted =>
        /\ MatchesWhite => AsWhite
        /\ (~MatchesWhite /\ MatchesBlack) => AsBlack
        /\ prompt.value.result = "Draw" <=> prompt.game.winner = PyNone
        /\ prompt.value.result = "Win" <=> WinnerIs(prompt.value.user_color)
        /\ prompt.value.result = "Loss" <=>
              (prompt.game.winner # PyNone /\ ~WinnerIs(prompt.value.user_color))

\* A win with Black, the identity differing from the black player's in case
C26_Witness ==
    /\ Formatted /\ ~MatchesWhite /\ MatchesBlack
    /\ prompt.game.black_player.s # prompt.username
    /\ prompt.game.winner = PyStr(<<"black">>)
    /\ prompt.value.user_color = "Black" /\ prompt.value.result = "Win"

\* Item k of the rendering: the number, a full stop, move 2k-1 and, when
\* there is one, move 2k
ItemOf(moves, k) ==
    DecimalText(k) \o <<".", " ">> \o moves[2 * k - 1]
        \o (IF 2 * k <= Len(moves) THEN <<" ">> \o moves[2 * k] ELSE <<>>)

RECURSIVE ItemsUpTo(_, _)
\* Items 1 to k, a space between two of them
ItemsUpTo(moves, k) ==
    IF k = 0 THEN <<>>
    ELSE IF k = 1 THEN ItemOf(moves, 1)
    ELSE ItemsUpTo(moves, k - 1) \o <<" ">> \o ItemOf(moves, k)

\* C28: n moves are rendered as ceil(n/2) numbered items with one space
\* between them, item k being "k. <move 2k-1> <move 2k>", the last one
\* "k. <move 2k-1>" when n is odd, and no moves as the empty text
C28_MoveRendering ==
    Formatted =>
        /\ prompt.value.formatted_moves =
              ItemsUpTo(prompt.game.moves, (Len(prompt.game.moves) + 1) \div 2)
        /\ Cardinality({k \in 1..Len(prompt.value.formatted_moves) :
                           prompt.value.formatted_moves[k] = "."})
              = (Len(prompt.game.moves) + 1) \div 2
        /\ prompt.game.moves = <<>> => prompt.value.formatted_moves = <<>>

\* Three moves rendered as "1. e4 d 2. e4"
C28_Witness ==
    /\ Formatted
    /\ prompt.game.moves = <<<<"e", "4">>, <<"d">>, <<"e", "4">>>>
    /\ prompt.value.formatted_moves =
          <<"1", ".", " ", "e", "4", " ", "d", " ", "2", ".", " ", "e", "4">>

------------------------------------------------------------------------------
(* Properties of list_cached_analyses *)

\* The files of the directory that are entries that can be read: named
\* *.json and holding a JSON object
ReadableEntries ==
    {m \in 1..Len(listing.dir.files) :
        /\ EndsWithJson(listing.dir.files[m].filename)
        /\ listing.dir.files[m].content.k = "dict"}

\* The item has a timestamp
HasTimestamp(item) == item.timestamp.k = "str" /\ item.timestamp.s # <<>>

\* C27: the listing has one item for every entry file that can be read, with
\* the identity, model, player and timestamp of the entry, and none for a
\* file that cannot be opened or parsed, which does not fail the listing; the
\* items are in the order of their timestamps, the latest first, and the
\* items without a timestamp come after all those that have one
C27_Enumeration ==
    listing.called =>
        /\ Len(listing.value) = Cardinality(ReadableEntries)
        /\ \A m \in ReadableEntries :
              \E k \in 1..Len(listing.value) :
                 /\ listing.value[k].filename = listing.dir.files[m].filename
                 /\ listing.value[k].game_id = listing.dir.files[m].content.f["game_id"]
                 /\ listing.value[k].timestamp =
                       PyGet(listing.dir.files[m].content, "timestamp", PyNone)
        /\ \A m, n \in 1..Len(listing.value) :
              m # n => listing.value[m].filename # listing.value[n].filename
        /\ \A m, n \in 1..Len(listing.value) :
              (m < n /\ HasTimestamp(listing.value[n])) =>
                  /\ HasTimestamp(listing.value[m])
                  /\ listing.value[m].timestamp.s[2] >= listing.value[n].timestamp.s[2]

\* A directory listed as an entry without timestamp, a cut-off entry and an
\* entry with a timestamp in turn: the last one comes first, the cut-off one
\* is left out
C27_Witness ==
    /\ listing.called /\ Len(listing.dir.files) = 3
    /\ listing.dir.files[1].content = EntryOf(Absent, EntryInfo)
    /\ listing.dir.files[2].content = Unparseable
    /\ EndsWithJson(listing.dir.files[2].filename)
    /\ listing.dir.files[3].content = EntryOf(PyStr(IsoFormat(2)), EntryInfo)
    /\ Len(listing.value) = 2
    /\ listing.value[1].filename = listing.dir.files[3].filename
    /\ listing.value[2].filename = listing.dir.files[1].filename

------------------------------------------------------------------------------
(* Properties of a cache write that fails *)

\* C31: a write for a key that fails, at the opening of the entry file or in
\* the middle of its serialization, while the key has a readable entry, leaves
\* that entry as it was: a read of the key after the write returns what a
\* read before it returned (checked under SpecPlain, on the directory before
\* and after each call)
C31_FailedWriteKeepsEntry ==
    \A k \in 1..Len(log) :
        LET e == log[k]
            before == LoadAnalysisFromCache(e.before, e.game_id, Model, Username)
            after == LoadAnalysisFromCache(e.after, e.game_id, Model, Username)
        IN  (e.save \in {"open_fails", "dump_fails"} /\ before.found) =>
                (after.found /\ after = before)

------------------------------------------------------------------------------
(* Properties of fetch_all_games, checked under SpecFetch *)

\* A loop that goes on beyond what is recorded of it has made a request a
\* second time, and was answered with a full batch both times
UnrecordedRepeats ==
    ~Recorded(fetch) => \E j, k \in 1..Len(fetch.requests) :
               /\ j < k
               /\ IntTruthy(fetch.requests[j]) = IntTruthy(fetch.requests[k])
               /\ IntTruthy(fetch.requests[j]) =>
                      fetch.requests[j] = fetch.requests[k]

\* C32: fetch_all_games terminates on every finite remote history, a last
\* game of a batch without creation timestamp included: the loop ends
C32_Terminates == <>(fetch.pc = "done")

\* C33: the list fetch_all_games collects has each game of the remote
\* history at most once, games created at the boundary timestamp of a batch
\* included
C33_NoDuplicates ==
    \A j, k \in 1..Len(fetch.all_games) :
        fetch.all_games[j].id = fetch.all_games[k].id => j = k

=============================================================================
